---- MODULE Spec2Model ----
(***************************************************************************)
(* The OpenAI-compatible stream parser of src-tauri/src/llm/protocols/     *)
(* openai_protocol.rs as a state machine: one ProtocolStreamState, the     *)
(* parse_stream_event handler applied to one chunk at a time, and the      *)
(* caller that drains pending_events (llm/testing/tests.rs collect_events).*)
(*                                                                         *)
(* Encodings.  Option<T> is a sequence of length 0 (None) or 1 (Some).     *)
(* Ids, names, text and reasoning fragments are TLA+ strings.  Argument    *)
(* text is a sequence of one-character strings, so that trim() and the     *)
(* JSON parse of the accumulated text are computed, not assumed.           *)
(***************************************************************************)
EXTENDS Integers, Sequences, FiniteSets, TLC

\* ------------------------------------------------------------------ bounds

\* Chunks submitted to one stream (the terminator included).
MaxChunks == 3
\* Largest vendor positional index of a tool-call delta.
MaxIndex == 1
\* Provider declarations in the model catalogue, over all its models.
MaxDeclared == 2
\* Content parts of one canonical message.
MaxParts == 2
\* Messages of one canonical conversation.
MaxMessages == 2

\* ------------------------------------------------------------ Option<T>

None == << >>
Some(x) == << x >>
IsSome(o) == Len(o) = 1
Get(o) == o[1]

\* ------------------------------------------------------------- strings

\* u64::to_string of a positional index (the placeholder key).
IndexToString(i) == <<"0", "1", "2", "3", "4", "5", "6", "7", "8", "9">>[i + 1]

IsWhitespace(ch) == ch = " "

RECURSIVE TrimStart(_)
TrimStart(s) ==
  IF s = << >> THEN << >>
  ELSE IF IsWhitespace(Head(s)) THEN TrimStart(Tail(s)) ELSE s

RECURSIVE TrimEnd(_)
TrimEnd(s) ==
  IF s = << >> THEN << >>
  ELSE IF IsWhitespace(s[Len(s)]) THEN TrimEnd(SubSeq(s, 1, Len(s) - 1)) ELSE s

\* str::trim
Trim(s) == TrimEnd(TrimStart(s))

\* serde_json values that argument text of the modelled alphabet can denote:
\* the empty object, or (when the text is not JSON) the raw string.
JsonEmptyObject == [kind |-> "object", text |-> << >>]
JsonString(s) == [kind |-> "string", text |-> s]

\* serde_json::from_str over the alphabet {"{", "}", " "}: the only documents
\* are an empty object with optional whitespace around and inside it.
FromStrOk(s) ==
  LET t == Trim(s) IN
    /\ Len(t) >= 2
    /\ t[1] = "{"
    /\ t[Len(t)] = "}"
    /\ \A i \in 2 .. (Len(t) - 1) : IsWhitespace(t[i])

\* Value::to_string of a non-string arguments value (the empty object).
ObjectToString == <<"{", "}">>

\* ------------------------------------------------------------- events

TextStart == [type |-> "TextStart"]
TextDelta(t) == [type |-> "TextDelta", text |-> t]
ToolCall(id, name, input) ==
  [type |-> "ToolCall", tool_call_id |-> id, tool_name |-> name, input |-> input]
ReasoningStart(id) == [type |-> "ReasoningStart", id |-> id]
ReasoningDelta(id, t) == [type |-> "ReasoningDelta", id |-> id, text |-> t]
ReasoningEnd(id) == [type |-> "ReasoningEnd", id |-> id]
Usage(i, o, t) ==
  [type |-> "Usage", input_tokens |-> i, output_tokens |-> o, total_tokens |-> t]
Done(fr) == [type |-> "Done", finish_reason |-> fr]

\* ----------------------------------------------------------- integers

\* An i64 as four 16-bit limbs, most significant first (two's complement):
\* TLC's own integers are 32 bits wide.
Zero64 == <<0, 0, 0, 0>>
One64 == <<0, 0, 0, 1>>
MinusOne64 == <<65535, 65535, 65535, 65535>>

\* v > 0 for an i64.
IsPositive64(v) == v[1] < 32768 /\ v # Zero64

\* `v as i32` of an i64: the low 32 bits, read as a signed number.
AsI32(v) == (IF v[3] >= 32768 THEN v[3] - 65536 ELSE v[3]) * 65536 + v[4]

\* --------------------------------------------------------------- state

VARIABLES
  pending_events,        \* Vec<StreamEvent>
  tool_call_index_map,   \* HashMap<u64, String>
  tool_calls,            \* HashMap<String, ToolCallAccum>
  tool_call_order,       \* Vec<String>
  emitted_tool_calls,    \* HashSet<String>
  reasoning_started,     \* bool
  reasoning_id,          \* Option<String>, the uuid abstracted to its serial
  text_started,          \* bool
  finish_reason,         \* Option<String>
  uuids,                 \* uuids generated so far (each new_v4 is fresh)
  ret,                   \* what the last parse_stream_event call returned
  failed,                \* whether the last call returned Err
  delivered,             \* events the caller has received, in order
  produced,              \* events in the order they were produced
  last_chunk,            \* Option: the chunk of the last call
  last_finish,           \* finish reason of the last chunk that carried one
  expected,              \* per index: whether a name was sent, and the
                         \* argument fragments sent, concatenated
  wellformed,            \* every tool-call delta so far carried its index,
                         \* no id but that of its index, string arguments,
                         \* and came before any finish reason
  nchunks,               \* chunks submitted so far
  config,                \* ModelsConfiguration: the model catalogue
  api_keys,              \* HashMap<String, String>: credential per provider id
  registry,              \* ProviderRegistry: ProviderConfig per provider id
  custom_providers,      \* CustomProvidersConfiguration
  call,                  \* the last model-registry call and what it returned
  protocols,             \* ProviderRegistry: the protocol per ProtocolType
  streams                \* concurrent streams: per stream its own
                         \* ProtocolStreamState, the chunks submitted to it
                         \* and the events delivered for it

stateVars ==
  << pending_events, tool_call_index_map, tool_calls, tool_call_order,
     emitted_tool_calls, reasoning_started, reasoning_id, text_started,
     finish_reason >>

vars ==
  << pending_events, tool_call_index_map, tool_calls, tool_call_order,
     emitted_tool_calls, reasoning_started, reasoning_id, text_started,
     finish_reason, uuids, ret, failed, delivered, produced, last_chunk,
     last_finish, expected, wellformed, nchunks, config, api_keys, registry,
     custom_providers, call, protocols, streams >>

\* The inputs and the result of the model-registry functions.
registryVars == << config, api_keys, registry, custom_providers, call >>

\* The protocol table and the concurrent streams.
otherVars == << protocols, streams >>

\* The ProtocolStreamState as one value.
State ==
  [ pending_events |-> pending_events,
    tool_call_index_map |-> tool_call_index_map,
    tool_calls |-> tool_calls,
    tool_call_order |-> tool_call_order,
    emitted_tool_calls |-> emitted_tool_calls,
    reasoning_started |-> reasoning_started,
    reasoning_id |-> reasoning_id,
    text_started |-> text_started,
    finish_reason |-> finish_reason ]

\* ProtocolStreamState::default()
DefaultState ==
  [ pending_events |-> << >>,
    tool_call_index_map |-> << >>,
    tool_calls |-> << >>,
    tool_call_order |-> << >>,
    emitted_tool_calls |-> {},
    reasoning_started |-> FALSE,
    reasoning_id |-> None,
    text_started |-> FALSE,
    finish_reason |-> None ]

\* state.pending_events.push(e)
Push(s, e) == [s EXCEPT !.pending_events = Append(@, e)]

\* ------------------------------------------------------ parse_tool_delta

\* A map with key k set to v (HashMap::insert).
Insert(m, k, v) == [x \in (DOMAIN m) \cup {k} |-> IF x = k THEN v ELSE m[x]]

\* tool_call_index_map.entry(index).or_insert_with(|| tool_call_id): the
\* association is recorded only when the index has none yet.
RecordIndex(s, entry) ==
  IF IsSome(entry.index) /\ entry.id # ""
       /\ Get(entry.index) \notin DOMAIN s.tool_call_index_map
  THEN [s EXCEPT !.tool_call_index_map = Insert(@, Get(entry.index), entry.id)]
  ELSE s

\* Mutant of ResolveKey: the id recorded for the index is preferred to the
\* delta's own id.
ResolveKeyRecordedFirst(s, entry) ==
  IF IsSome(entry.index) /\ Get(entry.index) \in DOMAIN s.tool_call_index_map
  THEN s.tool_call_index_map[Get(entry.index)]
  ELSE IF entry.id # "" THEN entry.id
  ELSE IF IsSome(entry.index) THEN
    LET index == Get(entry.index) IN
      IF index + 1 <= Len(s.tool_call_order) THEN s.tool_call_order[index + 1]
      ELSE IndexToString(index)
  ELSE ""

\* The accumulation key of a delta: its own id, else the id recorded for its
\* index, else the key at that position of tool_call_order, else the index's
\* string form; "" when the delta has neither id nor index.
ResolveKey(s, entry) ==
  IF entry.id # "" THEN entry.id
  ELSE IF IsSome(entry.index) THEN
    LET index == Get(entry.index) IN
      IF index \in DOMAIN s.tool_call_index_map THEN s.tool_call_index_map[index]
      ELSE IF index + 1 <= Len(s.tool_call_order) THEN s.tool_call_order[index + 1]
      ELSE IndexToString(index)
  ELSE ""

\* Mutant of UpsertAccum: a string fragment replaces the argument text.
UpsertAccumReplacing(s, entry, key) ==
  LET fresh == [ tool_call_id |-> IF entry.id = "" THEN key ELSE entry.id,
                 tool_name |-> entry.name,
                 arguments |-> << >> ]
      acc0 == IF key \in DOMAIN s.tool_calls THEN s.tool_calls[key] ELSE fresh
      acc1 == IF entry.id # "" THEN [acc0 EXCEPT !.tool_call_id = entry.id] ELSE acc0
      acc2 == IF entry.name # "" THEN [acc1 EXCEPT !.tool_name = entry.name] ELSE acc1
      acc3 == IF entry.args.kind \in {"str", "json"} /\ entry.args.text # << >>
              THEN [acc2 EXCEPT !.arguments = entry.args.text] ELSE acc2
  IN [s EXCEPT !.tool_calls = Insert(@, key, acc3)]

\* tool_calls.entry(key).or_insert_with(..) followed by the id, name and
\* argument updates of the accumulator.
UpsertAccum(s, entry, key) ==
  LET fresh == [ tool_call_id |-> IF entry.id = "" THEN key ELSE entry.id,
                 tool_name |-> entry.name,
                 arguments |-> << >> ]
      acc0 == IF key \in DOMAIN s.tool_calls THEN s.tool_calls[key] ELSE fresh
      acc1 == IF entry.id # "" THEN [acc0 EXCEPT !.tool_call_id = entry.id] ELSE acc0
      acc2 == IF entry.name # "" THEN [acc1 EXCEPT !.tool_name = entry.name] ELSE acc1
      acc3 ==
        CASE entry.args.kind = "str" ->
               IF entry.args.text # << >>
               THEN [acc2 EXCEPT !.arguments = @ \o entry.args.text]
               ELSE acc2
          [] entry.args.kind = "json" ->
               IF acc2.arguments = << >>
               THEN [acc2 EXCEPT !.arguments = entry.args.text]
               ELSE acc2
          [] OTHER -> acc2
  IN [s EXCEPT !.tool_calls = Insert(@, key, acc3)]

\* Vec::resize(n, String::new()) when the vector is shorter than n.
Resize(order, n) ==
  IF Len(order) >= n THEN order
  ELSE order \o [i \in 1 .. (n - Len(order)) |-> ""]

\* Whether the slot of a known index takes the delta's key.
SlotTakesKey(slot, placeholder, entry, key) ==
  \/ slot = ""
  \/ slot = placeholder
  \/ (entry.id # "" /\ slot # key)

\* tool_call_order: positional when the delta has an index, else appended
\* once.
PlaceInOrder(s, entry, key) ==
  IF IsSome(entry.index) THEN
    LET order_index == Get(entry.index)
        order == Resize(s.tool_call_order, order_index + 1)
        placeholder == IndexToString(order_index)
    IN IF SlotTakesKey(order[order_index + 1], placeholder, entry, key)
       THEN [s EXCEPT !.tool_call_order = [order EXCEPT ![order_index + 1] = key]]
       ELSE [s EXCEPT !.tool_call_order = order]
  ELSE IF \E i \in 1 .. Len(s.tool_call_order) : s.tool_call_order[i] = key
       THEN s
       ELSE [s EXCEPT !.tool_call_order = Append(@, key)]

\* One entry of delta.tool_calls.
ParseToolEntry(s, entry) ==
  LET s1 == RecordIndex(s, entry)
      key == ResolveKey(s1, entry)
  IN IF key = "" THEN s1
     ELSE PlaceInOrder(UpsertAccum(s1, entry, key), entry, key)

\* parse_tool_delta: the entries of delta.tool_calls in order (nothing when
\* the delta has no tool_calls array).
RECURSIVE ParseToolEntries(_, _)
ParseToolEntries(s, entries) ==
  IF entries = << >> THEN s
  ELSE ParseToolEntries(ParseToolEntry(s, Head(entries)), Tail(entries))

ParseToolDelta(s, delta) ==
  IF IsSome(delta.tool_calls) THEN ParseToolEntries(s, Get(delta.tool_calls)) ELSE s

\* ------------------------------------------------------- emit_tool_calls

\* The input of a ToolCall event: {} for blank argument text, else the parsed
\* JSON, else the raw text as a string value.
InputValue(arguments) ==
  IF Trim(arguments) = << >> THEN JsonEmptyObject
  ELSE IF FromStrOk(arguments) THEN JsonEmptyObject
  ELSE JsonString(arguments)

\* Whether the walk emits the accumulator of a key that is not yet emitted.
Emittable(acc, force) ==
  /\ acc.tool_name # ""
  /\ (force \/ Trim(acc.arguments) # << >>)

\* Mutant of EmitKey: the emitted set is not consulted.
EmitKeyUnchecked(s, key, force) ==
  IF key \notin DOMAIN s.tool_calls THEN s
  ELSE LET acc == s.tool_calls[key] IN
    IF ~Emittable(acc, force) THEN s
    ELSE [ Push(s, ToolCall(acc.tool_call_id, acc.tool_name, InputValue(acc.arguments)))
             EXCEPT !.emitted_tool_calls = @ \cup {key} ]

\* One iteration of the walk over the cloned tool_call_order.
EmitKey(s, key, force) ==
  IF key \in s.emitted_tool_calls THEN s
  ELSE IF key \notin DOMAIN s.tool_calls THEN s
  ELSE LET acc == s.tool_calls[key] IN
    IF ~Emittable(acc, force) THEN s
    ELSE [ Push(s, ToolCall(acc.tool_call_id, acc.tool_name, InputValue(acc.arguments)))
             EXCEPT !.emitted_tool_calls = @ \cup {key} ]

RECURSIVE EmitWalk(_, _, _)
EmitWalk(s, keys, force) ==
  IF keys = << >> THEN s
  ELSE EmitWalk(EmitKey(s, Head(keys), force), Tail(keys), force)

EmitToolCalls(s, force) == EmitWalk(s, s.tool_call_order, force)

\* ---------------------------------------------------- parse_stream_event

\* chunks: the terminator, a payload that is not JSON, or a JSON object.
DoneChunk == [kind |-> "done", usage |-> None, choice |-> None]
InvalidChunk == [kind |-> "invalid", usage |-> None, choice |-> None]
JsonChunk(usage, choice) == [kind |-> "json", usage |-> usage, choice |-> choice]

\* .and_then(|v| v.as_i64()).unwrap_or(0)
UnwrapOr0(o) == IF IsSome(o) THEN Get(o) ELSE Zero64

\* Mutant of HasMeaningfulData: any explicit total counts, zero included.
HasMeaningfulDataAnyTotal(input_tokens, output_tokens, total_tokens) ==
  \/ IsPositive64(input_tokens)
  \/ IsPositive64(output_tokens)
  \/ IsSome(total_tokens)

\* has_meaningful_data
HasMeaningfulData(input_tokens, output_tokens, total_tokens) ==
  \/ IsPositive64(input_tokens)
  \/ IsPositive64(output_tokens)
  \/ (IsSome(total_tokens) /\ IsPositive64(Get(total_tokens)))

\* The usage block of a payload.
UsageStep(s, usage) ==
  IF ~IsSome(usage) THEN s
  ELSE LET input_tokens == UnwrapOr0(Get(usage).prompt_tokens)
           output_tokens == UnwrapOr0(Get(usage).completion_tokens)
           total_tokens == Get(usage).total_tokens
       IN IF HasMeaningfulData(input_tokens, output_tokens, total_tokens)
          THEN Push(s, Usage(AsI32(input_tokens), AsI32(output_tokens),
                             IF IsSome(total_tokens)
                             THEN Some(AsI32(Get(total_tokens))) ELSE None))
          ELSE s

\* choice.finish_reason, when it is a string.
FinishStep(s, choice) ==
  IF IsSome(choice.finish_reason)
  THEN [s EXCEPT !.finish_reason = choice.finish_reason]
  ELSE s

\* Mutant of TextStartStep: TextStart for every delta.
TextStartStepEveryDelta(s) == Push([s EXCEPT !.text_started = TRUE], TextStart)

\* The first delta of a stream.
TextStartStep(s) ==
  IF ~s.text_started
  THEN Push([s EXCEPT !.text_started = TRUE], TextStart)
  ELSE s

\* Mutant of ReasoningStep: an empty fragment is treated like any other.
ReasoningStepEmptyToo(s, delta, uuid) ==
  IF IsSome(delta.reasoning_content)
  THEN LET s1 == IF ~s.reasoning_started
                 THEN Push([s EXCEPT !.reasoning_started = TRUE,
                                     !.reasoning_id = Some(uuid)],
                           ReasoningStart(uuid))
                 ELSE s
       IN Push(s1, ReasoningDelta(Get(s1.reasoning_id),
                                  Get(delta.reasoning_content)))
  ELSE s

\* delta.reasoning_content; uuid is the id a new_v4 call would return.
ReasoningStep(s, delta, uuid) ==
  IF IsSome(delta.reasoning_content) /\ Get(delta.reasoning_content) # ""
  THEN LET s1 == IF ~s.reasoning_started
                 THEN Push([s EXCEPT !.reasoning_started = TRUE,
                                     !.reasoning_id = Some(uuid)],
                           ReasoningStart(uuid))
                 ELSE s
       IN IF IsSome(s1.reasoning_id)
          THEN Push(s1, ReasoningDelta(Get(s1.reasoning_id),
                                       Get(delta.reasoning_content)))
          ELSE s1
  ELSE s

\* Mutant of ContentStep: the text of a delta that also has a reasoning
\* fragment is dropped.
ContentStepUnlessReasoning(s, delta) ==
  IF IsSome(delta.content) /\ ~IsSome(delta.reasoning_content)
  THEN Push(s, TextDelta(Get(delta.content))) ELSE s

\* delta.content
ContentStep(s, delta) ==
  IF IsSome(delta.content) THEN Push(s, TextDelta(Get(delta.content))) ELSE s

\* choices[0].delta
DeltaStep(s, delta, uuid) ==
  ParseToolDelta(ContentStep(ReasoningStep(TextStartStep(s), delta, uuid), delta),
                 delta)

\* choices[0]
ChoiceStep(s, choice, uuid) ==
  LET s1 == FinishStep(s, choice)
  IN IF IsSome(choice.delta) THEN DeltaStep(s1, Get(choice.delta), uuid) ELSE s1

\* The flush a recorded "tool_calls" finish reason triggers.
FinishFlushStep(s) ==
  IF s.finish_reason = Some("tool_calls") THEN EmitToolCalls(s, FALSE) ELSE s

\* Mutant of ReasoningEndStep: the channel stays marked as started.
ReasoningEndStepStaysOpen(s, when) ==
  IF when /\ s.reasoning_started
  THEN IF IsSome(s.reasoning_id)
       THEN Push(s, ReasoningEnd(Get(s.reasoning_id)))
       ELSE s
  ELSE s

\* ReasoningEnd for an open channel; `when` is the condition of the caller.
ReasoningEndStep(s, when) ==
  IF when /\ s.reasoning_started
  THEN LET s1 == IF IsSome(s.reasoning_id)
                 THEN Push(s, ReasoningEnd(Get(s.reasoning_id)))
                 ELSE s
       IN [s1 EXCEPT !.reasoning_started = FALSE]
  ELSE s

\* Mutant of PopFront: the newest queued event is returned.
PopBack(s, otherwise) ==
  IF s.pending_events # << >>
  THEN [state |-> [s EXCEPT !.pending_events = SubSeq(@, 1, Len(@) - 1)],
        ret |-> Some(s.pending_events[Len(s.pending_events)]), queued |-> TRUE]
  ELSE [state |-> s, ret |-> otherwise, queued |-> FALSE]

\* pending_events.get(0).cloned() and remove(0): the event returned and the
\* queue left; the caller supplies what is returned for an empty queue.
PopFront(s, otherwise) ==
  IF s.pending_events # << >>
  THEN [state |-> [s EXCEPT !.pending_events = Tail(@)],
        ret |-> Some(Head(s.pending_events)), queued |-> TRUE]
  ELSE [state |-> s, ret |-> otherwise, queued |-> FALSE]

\* The terminator branch, before its return.
TerminatorSteps(s) ==
  ReasoningEndStep(EmitToolCalls(s, TRUE), TRUE)

\* Mutant of TerminatorDefault: Done without the recorded finish reason.
TerminatorDefaultNoReason(s) == Some(Done(None))

\* What the terminator returns when nothing is pending.
TerminatorDefault(s) == Some(Done(s.finish_reason))

\* The JSON branch, before its return.
PayloadSteps(s, chunk, uuid) ==
  LET s1 == UsageStep(s, chunk.usage)
      s2 == IF IsSome(chunk.choice) THEN ChoiceStep(s1, Get(chunk.choice), uuid) ELSE s1
      s3 == FinishFlushStep(s2)
  IN ReasoningEndStep(s3, IsSome(s3.finish_reason))

\* The state of the call just before it picks its return value.
BeforeReturn(s, chunk, uuid) ==
  CASE chunk.kind = "done" -> TerminatorSteps(s)
    [] chunk.kind = "json" -> PayloadSteps(s, chunk, uuid)
    [] OTHER -> s

\* The events a call pushed: the queue before its return, past what the queue
\* held when the call began.
Pushed(s, b) ==
  SubSeq(b.pending_events, Len(s.pending_events) + 1, Len(b.pending_events))

\* Mutant of ParseFailure: the payload is rejected after the accumulated
\* tool calls were flushed, as for a terminator.
ParseFailureAfterFlush(s) ==
  [state |-> EmitToolCalls(s, TRUE), ret |-> None, queued |-> FALSE, err |-> TRUE,
   pushed |-> Pushed(s, EmitToolCalls(s, TRUE))]

\* serde_json::from_str(data) failing: the `?` returns Err before the state
\* is touched.
ParseFailure(s) ==
  [state |-> s, ret |-> None, queued |-> FALSE, err |-> TRUE, pushed |-> << >>]

\* parse_stream_event: the state left, the Option returned, whether that came
\* from the queue, whether the call returned Err, and the events it pushed.
ParseStreamEvent(s, chunk, uuid) ==
  IF chunk.kind = "invalid"
  THEN ParseFailure(s)
  ELSE \* one evaluation of the steps before the return
    LET b == BeforeReturn(s, chunk, uuid)
        p == PopFront(b, IF chunk.kind = "done" THEN TerminatorDefault(b) ELSE None)
    IN [state |-> p.state, ret |-> p.ret, queued |-> p.queued, err |-> FALSE,
        pushed |-> Pushed(s, b)]

\* ------------------------------------------------------------- inputs

\* The id the vendor gives the call at a positional index.
IdOf(i) == <<"a", "b", "c", "d", "e", "f", "g", "h", "i", "j">>[i + 1]

Indices == 0 .. MaxIndex
Absent == [kind |-> "absent", text |-> << >>]
StrArg(t) == [kind |-> "str", text |-> t]
JsonArg == [kind |-> "json", text |-> ObjectToString]

Entry(index, id, name, args) ==
  [index |-> index, id |-> id, name |-> name, args |-> args]
Delta(reasoning, content, tools) ==
  [reasoning_content |-> reasoning, content |-> content, tool_calls |-> tools]
Choice(finish, delta) == [finish_reason |-> finish, delta |-> delta]
UsageBlock(p, c, t) ==
  [prompt_tokens |-> p, completion_tokens |-> c, total_tokens |-> t]

FinishReasons == {None, Some("stop"), Some("tool_calls")}

\* Deltas with text and reasoning fragments only.
TextDeltas ==
  {Delta(r, c, None) : r \in {None, Some(""), Some("r")}, c \in {None, Some("t")}}

\* Tool-call entries of the call at index i, each with or without the id: the
\* name with the first argument fragment, and a later argument fragment.
IndexedEntries(i) ==
  {Entry(Some(i), id, na[1], na[2]) :
     id \in {"", IdOf(i)},
     na \in {<<"f", StrArg(<<"{">>)>>, <<"", StrArg(<<"}">>)>>}}

\* A call announced with its id and name and no argument text.
NoArgEntry(i) == Entry(Some(i), IdOf(i), "f", Absent)

\* A whole call in one entry.
WholeEntry(i) == Entry(Some(i), IdOf(i), "f", StrArg(<<"{", "}">>))

\* An entry identified by its id alone.
IdOnlyEntry == Entry(None, IdOf(0), "f", StrArg(<<"{">>))

\* Unusual entries: neither id nor index, whitespace-only argument text, and
\* arguments sent as a JSON object instead of a string.
OddEntries ==
  { Entry(None, "", "f", StrArg(<<"{">>)),
    Entry(Some(0), "", "f", StrArg(<<" ">>)),
    Entry(Some(0), IdOf(0), "f", JsonArg) }

ToolChunk(finish, entry) ==
  JsonChunk(None, Some(Choice(finish, Some(Delta(None, None, Some(<<entry>>))))))

UsagePositive == Some(UsageBlock(Some(One64), Some(Zero64), None))

\* The chunks of the general specification: every kind of chunk, the
\* combinations within one chunk kept few.
Chunks ==
  {DoneChunk, InvalidChunk}
    \cup {JsonChunk(UsagePositive, None),
          JsonChunk(UsagePositive,
                    Some(Choice(None, Some(Delta(Some("r"), Some("t"), None)))))}
    \cup {JsonChunk(None, Some(Choice(f, None))) : f \in FinishReasons \ {None}}
    \cup {JsonChunk(None, Some(Choice(f, Some(Delta(Some("r"), None, None))))) :
            f \in {None, Some("stop")}}
    \cup {JsonChunk(None, Some(Choice(None, Some(Delta(r, c, None))))) :
            r \in {None, Some("")}, c \in {None, Some("t")}}
    \cup {ToolChunk(None, e) :
            e \in UNION {IndexedEntries(i) \cup {NoArgEntry(i)} : i \in Indices}
                    \cup {IdOnlyEntry} \cup OddEntries}
    \cup {ToolChunk(Some("tool_calls"), WholeEntry(i)) : i \in Indices}

\* ------------------------------------------------------------ history

\* The tool-call entries of a chunk.
EntriesOf(chunk) ==
  IF chunk.kind = "json" /\ IsSome(chunk.choice) /\ IsSome(Get(chunk.choice).delta)
       /\ IsSome(Get(Get(chunk.choice).delta).tool_calls)
  THEN Get(Get(Get(chunk.choice).delta).tool_calls)
  ELSE << >>

\* The finish reason a chunk carries, if any.
FinishOf(chunk) ==
  IF chunk.kind = "json" /\ IsSome(chunk.choice)
  THEN Get(chunk.choice).finish_reason ELSE None

EntryWellformed(e) ==
  /\ IsSome(e.index)
  /\ e.id \in {"", IdOf(Get(e.index))}
  /\ e.args.kind # "json"

RECURSIVE Expect(_, _)
Expect(exp, entries) ==
  IF entries = << >> THEN exp
  ELSE LET e == Head(entries) IN
    IF IsSome(e.index)
    THEN Expect([exp EXCEPT ![Get(e.index)] =
                   [ seen |-> TRUE,
                     named |-> @.named \/ e.name # "",
                     frags |-> IF e.args.kind = "str" THEN @.frags \o e.args.text
                               ELSE @.frags ]],
                Tail(entries))
    ELSE Expect(exp, Tail(entries))

\* --------------------------------------------------------------- actions

\* A stream whose ProtocolStreamState has just been constructed.
InitStream ==
  /\ pending_events = DefaultState.pending_events
  /\ tool_call_index_map = DefaultState.tool_call_index_map
  /\ tool_calls = DefaultState.tool_calls
  /\ tool_call_order = DefaultState.tool_call_order
  /\ emitted_tool_calls = DefaultState.emitted_tool_calls
  /\ reasoning_started = DefaultState.reasoning_started
  /\ reasoning_id = DefaultState.reasoning_id
  /\ text_started = DefaultState.text_started
  /\ finish_reason = DefaultState.finish_reason
  /\ uuids = 0
  /\ ret = None
  /\ failed = FALSE
  /\ delivered = << >>
  /\ produced = << >>
  /\ last_chunk = None
  /\ last_finish = None
  /\ expected = [i \in Indices |-> [seen |-> FALSE, named |-> FALSE, frags |-> << >>]]
  /\ wellformed = TRUE
  /\ nchunks = 0

\* No model-registry call is in progress: empty catalogue, credentials,
\* registry and custom providers.
NoCall == [op |-> "none"]
EmptyRegistry ==
  /\ config = << >>
  /\ api_keys = << >>
  /\ registry = << >>
  /\ custom_providers = << >>
  /\ call = NoCall

\* ProviderRegistry::new: the two built-in protocols, by ProtocolType.
Protocols == [OpenAiCompatible |-> "OpenAiProtocol", Claude |-> "ClaudeProtocol"]

\* The protocol table as constructed, and no concurrent streams.
NoStreams ==
  /\ protocols = Protocols
  /\ streams = << >>

Init == InitStream /\ EmptyRegistry /\ NoStreams

\* The stream terminator has been submitted.
Terminated == last_chunk = Some(DoneChunk)

\* One parse_stream_event call on the next chunk, the queue drained before.
Submit(chunk) ==
  /\ nchunks < MaxChunks
  /\ pending_events = << >>
  /\ \E r \in {ParseStreamEvent(State, chunk, uuids + 1)} :
        /\ pending_events' = r.state.pending_events
        /\ tool_call_index_map' = r.state.tool_call_index_map
        /\ tool_calls' = r.state.tool_calls
        /\ tool_call_order' = r.state.tool_call_order
        /\ emitted_tool_calls' = r.state.emitted_tool_calls
        /\ reasoning_started' = r.state.reasoning_started
        /\ reasoning_id' = r.state.reasoning_id
        /\ text_started' = r.state.text_started
        /\ finish_reason' = r.state.finish_reason
        /\ uuids' = IF r.state.reasoning_id = Some(uuids + 1) THEN uuids + 1 ELSE uuids
        /\ ret' = r.ret
        /\ failed' = r.err
        /\ delivered' = delivered \o r.ret
        /\ produced' = produced \o r.pushed \o (IF r.queued THEN << >> ELSE r.ret)
  /\ last_chunk' = Some(chunk)
  /\ last_finish' = IF IsSome(FinishOf(chunk)) THEN FinishOf(chunk) ELSE last_finish
  /\ expected' = Expect(expected, EntriesOf(chunk))
  /\ wellformed' = (/\ wellformed
                    /\ EntriesOf(chunk) # << >> => last_finish = None
                    /\ \A i \in 1 .. Len(EntriesOf(chunk)) :
                         EntryWellformed(EntriesOf(chunk)[i]))
  /\ nchunks' = nchunks + 1
  /\ UNCHANGED registryVars
  /\ UNCHANGED otherVars

\* The caller submits the next chunk of the stream to parse_stream_event,
\* after draining the queue; nothing is submitted after the terminator.
Parse(chunk) == ~Terminated /\ Submit(chunk)

\* The caller takes the oldest pending event (the drain loop).
Drain ==
  /\ pending_events # << >>
  /\ delivered' = Append(delivered, Head(pending_events))
  /\ pending_events' = Tail(pending_events)
  /\ UNCHANGED << tool_call_index_map, tool_calls, tool_call_order,
                  emitted_tool_calls, reasoning_started, reasoning_id,
                  text_started, finish_reason, uuids, ret, failed, produced,
                  last_chunk, last_finish, expected, wellformed, nchunks >>
  /\ UNCHANGED registryVars
  /\ UNCHANGED otherVars

Next ==
  \/ \E chunk \in Chunks : Parse(chunk)
  \/ Drain

Spec == Init /\ [][Next]_vars

\* ------------------------------------------------------- specifications

\* Streams of text, reasoning and finish-reason chunks, every combination.
TextChunks ==
  {DoneChunk}
    \cup {JsonChunk(None, Some(Choice(f, None))) : f \in FinishReasons}
    \cup {JsonChunk(None, Some(Choice(f, Some(d)))) :
            f \in FinishReasons, d \in TextDeltas}

NextText ==
  \/ \E chunk \in TextChunks : Parse(chunk)
  \/ Drain

SpecText == Init /\ [][NextText]_vars

\* Streams of usage blocks, every combination of the three counts.
TokenCounts == {None, Some(Zero64), Some(One64)}
Usages ==
  {Some(UsageBlock(p, c, t)) :
     p \in TokenCounts, c \in TokenCounts \ {None},
     t \in TokenCounts \cup {Some(MinusOne64)}}

UsageChunks ==
  {DoneChunk}
    \cup {JsonChunk(u, None) : u \in Usages}
    \cup {JsonChunk(u, Some(Choice(None, Some(Delta(None, Some("t"), None))))) :
            u \in {UsagePositive, Some(UsageBlock(Some(Zero64), Some(Zero64), Some(Zero64)))}}

NextUsage ==
  \/ \E chunk \in UsageChunks : Parse(chunk)
  \/ Drain

SpecUsage == Init /\ [][NextUsage]_vars

\* Streams on which the caller keeps submitting chunks after a terminator
\* (a repeated terminator, or deltas and finish reasons after it).
RepeatChunks ==
  {DoneChunk,
   JsonChunk(None, Some(Choice(Some("tool_calls"), None))),
   JsonChunk(None, Some(Choice(None, Some(Delta(None, Some("t"), None)))))}
    \cup {ToolChunk(None, e) :
            e \in UNION {IndexedEntries(i) \cup {NoArgEntry(i)} : i \in Indices}}
    \cup {ToolChunk(Some("tool_calls"), WholeEntry(i)) : i \in Indices}

NextRepeat ==
  \/ \E chunk \in RepeatChunks : Submit(chunk)
  \/ Drain

SpecRepeat == Init /\ [][NextRepeat]_vars

\* -------------------------------------------------------- model registry
\* src-tauri/src/llm/models/model_registry.rs.  Identifiers (model keys,
\* provider ids, formatted keys) are sequences of segments, the separators
\* "-" and "@" being segments of their own, so that format! and split are
\* computed on the text; credentials and display names are sequences of
\* one-character strings.

\* format!("{}-{}", model_key, provider_id)
FormatKey(model_key, provider_id) == model_key \o <<"-">> \o provider_id

\* str::split('@'), continuing the part `cur` begun before s.
RECURSIVE SplitAt(_, _)
SplitAt(s, cur) ==
  IF s = << >> THEN << cur >>
  ELSE IF Head(s) = "@" THEN << cur >> \o SplitAt(Tail(s), << >>)
  ELSE SplitAt(Tail(s), Append(cur, Head(s)))

Split(s) == SplitAt(s, << >>)

\* The enable flag of a local runtime, as a credential value.
Enabled == <<"e", "n", "a", "b", "l", "e", "d">>

\* provider_id == "ollama" || provider_id == "lmstudio"
IsLocalRuntime(provider_id) == provider_id = <<"ollama">> \/ provider_id = <<"lmstudio">>

\* custom_providers.providers.get(provider_id), then custom.enabled
CustomEnabled(provider_id, custom) ==
  provider_id \in DOMAIN custom /\ custom[provider_id].enabled

\* provider_available
ProviderAvailable(provider_id, keys, reg, custom) ==
  IF provider_id \in DOMAIN reg
  THEN LET provider == reg[provider_id] IN
    IF provider.auth_type = "None"
    THEN IF IsLocalRuntime(provider_id)
         THEN provider_id \in DOMAIN keys /\ keys[provider_id] = Enabled
         ELSE TRUE
    ELSE IF provider_id \in DOMAIN keys THEN TRUE
    ELSE IF /\ provider.supports_oauth
            /\ provider_id \in DOMAIN keys
            /\ Trim(keys[provider_id]) # << >>
         THEN TRUE
    ELSE CustomEnabled(provider_id, custom)
  ELSE CustomEnabled(provider_id, custom)

\* Result<(String, String), String>
Ok(model, provider) == [ok |-> TRUE, model |-> model, provider |-> provider]
Err(model_identifier) == [ok |-> FALSE, model |-> model_identifier, provider |-> << >>]

\* Mutant of ExplicitResult: the two parts taken as provider@model.
ExplicitResultSwapped(parts) == Ok(parts[2], parts[1])

\* The explicit form: the two parts as they are.
ExplicitResult(parts) == Ok(parts[1], parts[2])

\* Mutant of FirstAvailable: the last available declared provider.
LastAvailable(providers, keys, reg, custom) ==
  LET avail == {i \in 1 .. Len(providers) :
                  ProviderAvailable(providers[i], keys, reg, custom)}
  IN IF avail = {} THEN None
     ELSE Some(providers[CHOOSE i \in avail : \A j \in avail : j <= i])

\* The loop over model_cfg.providers: the first one judged available.
FirstAvailable(providers, keys, reg, custom) ==
  LET avail == {i \in 1 .. Len(providers) :
                  ProviderAvailable(providers[i], keys, reg, custom)}
  IN IF avail = {} THEN None
     ELSE Some(providers[CHOOSE i \in avail : \A j \in avail : i <= j])

\* The identifier is a key of the catalogue.
KnownModelResult(model_identifier, providers, keys, reg, custom) ==
  LET first == FirstAvailable(providers, keys, reg, custom)
  IN IF IsSome(first) THEN Ok(model_identifier, Get(first)) ELSE Err(model_identifier)

\* Mutant of FallbackResults: enabled custom providers are tried first.
FallbackResultsCustomFirst(model_identifier, keys, reg, custom) ==
  LET builtin == {p \in DOMAIN reg : ProviderAvailable(p, keys, reg, custom)}
      enabled == {p \in DOMAIN custom : custom[p].enabled}
  IN IF enabled # {} THEN {Ok(model_identifier, p) : p \in enabled}
     ELSE IF builtin # {} THEN {Ok(model_identifier, p) : p \in builtin}
     ELSE {Err(model_identifier)}

\* The identifier is not a key of the catalogue: the first registered
\* provider judged available, in the iteration order of the registry's hash
\* map (any order), else the first enabled custom provider found (any).
FallbackResults(model_identifier, keys, reg, custom) ==
  LET builtin == {p \in DOMAIN reg : ProviderAvailable(p, keys, reg, custom)}
      enabled == {p \in DOMAIN custom : custom[p].enabled}
  IN IF builtin # {} THEN {Ok(model_identifier, p) : p \in builtin}
     ELSE IF enabled # {} THEN {Ok(model_identifier, p) : p \in enabled}
     ELSE {Err(model_identifier)}

\* get_model_provider: the results the call can return.
GetModelProvider(model_identifier, keys, reg, custom, cfg) ==
  LET parts == Split(model_identifier) IN
    IF Len(parts) = 2 THEN {ExplicitResult(parts)}
    ELSE IF model_identifier \in DOMAIN cfg
    THEN {KnownModelResult(model_identifier, cfg[model_identifier].providers,
                           keys, reg, custom)}
    ELSE FallbackResults(model_identifier, keys, reg, custom)

\* AvailableModel (the capability flags and the pricing are copied from the
\* catalogue entry like the name).
AvailableModel(key, name, provider, provider_name) ==
  [key |-> key, name |-> name, provider |-> provider, provider_name |-> provider_name]

\* The byte of a character of a display name.
ByteOf(ch) == [A |-> 65, B |-> 66, a |-> 97][ch]

\* str::cmp: lexicographic by byte.
RECURSIVE Cmp(_, _)
Cmp(a, b) ==
  IF a = << >> THEN (IF b = << >> THEN "Equal" ELSE "Less")
  ELSE IF b = << >> THEN "Greater"
  ELSE IF ByteOf(Head(a)) < ByteOf(Head(b)) THEN "Less"
  ELSE IF ByteOf(Head(a)) > ByteOf(Head(b)) THEN "Greater"
  ELSE Cmp(Tail(a), Tail(b))

\* Mutant of CmpName: the operands are exchanged (a descending sort).
CmpNameReversed(a, b) == Cmp(b.name, a.name)

\* |a, b| a.name.cmp(&b.name)
CmpName(a, b) == Cmp(a.name, b.name)

\* An element placed into a sorted sequence after every element that is not
\* greater (the sort is stable).
RECURSIVE InsertSorted(_, _)
InsertSorted(sorted, e) ==
  IF sorted = << >> THEN << e >>
  ELSE IF CmpName(sorted[Len(sorted)], e) = "Greater"
       THEN Append(InsertSorted(SubSeq(sorted, 1, Len(sorted) - 1), e),
                   sorted[Len(sorted)])
       ELSE Append(sorted, e)

\* slice::sort_by
RECURSIVE SortBy(_)
SortBy(seq) ==
  IF seq = << >> THEN << >>
  ELSE InsertSorted(SortBy(SubSeq(seq, 1, Len(seq) - 1)), seq[Len(seq)])

\* The orders in which a hash map can yield the keys S.
Orders(S) ==
  {o \in [1 .. Cardinality(S) -> S] : \A i, j \in DOMAIN o : o[i] = o[j] => i = j}

\* The (model key, provider id) declarations of the catalogue, the models in
\* the given iteration order, the providers of each as declared.
RECURSIVE Declarations(_, _)
Declarations(cfg, order) ==
  IF order = << >> THEN << >>
  ELSE LET providers == cfg[Head(order)].providers
       IN [i \in 1 .. Len(providers) |-> << Head(order), providers[i] >>]
            \o Declarations(cfg, Tail(order))

\* if !model_map.contains_key(&key) { model_map.insert(key, ..) }
InsertIfAbsent(model_map, key, entry) ==
  IF key \in DOMAIN model_map THEN model_map ELSE Insert(model_map, key, entry)

\* The key of the first loop.
BuiltinKey(model_key, provider_id) == FormatKey(model_key, provider_id)

\* Mutant of CustomKey: the second loop marks its keys.
CustomKeyMarked(model_key, provider_id) ==
  FormatKey(model_key, provider_id) \o <<"-", "custom">>

\* The key of the second loop.
CustomKey(model_key, provider_id) == FormatKey(model_key, provider_id)

\* The first loop: declared providers that are judged available and are in
\* the registry.
RECURSIVE BuiltinPass(_, _, _, _, _, _)
BuiltinPass(model_map, decls, cfg, keys, reg, custom) ==
  IF decls = << >> THEN model_map
  ELSE LET model_key == Head(decls)[1]
           provider_id == Head(decls)[2]
           next ==
             IF ProviderAvailable(provider_id, keys, reg, custom)
                  /\ provider_id \in DOMAIN reg
             THEN InsertIfAbsent(model_map, BuiltinKey(model_key, provider_id),
                                 AvailableModel(model_key, cfg[model_key].name,
                                                provider_id, reg[provider_id].name))
             ELSE model_map
       IN BuiltinPass(next, Tail(decls), cfg, keys, reg, custom)

\* The second loop: declared providers that are enabled custom providers.
RECURSIVE CustomPass(_, _, _, _)
CustomPass(model_map, decls, cfg, custom) ==
  IF decls = << >> THEN model_map
  ELSE LET model_key == Head(decls)[1]
           provider_id == Head(decls)[2]
           next ==
             IF CustomEnabled(provider_id, custom)
             THEN InsertIfAbsent(model_map, CustomKey(model_key, provider_id),
                                 AvailableModel(model_key, cfg[model_key].name,
                                                provider_id, custom[provider_id].name))
             ELSE model_map
       IN CustomPass(next, Tail(decls), cfg, custom)

\* model_map after both loops, for one iteration order of config.models.
ModelMap(cfg, keys, reg, custom, order) ==
  LET decls == Declarations(cfg, order)
  IN CustomPass(BuiltinPass(<< >>, decls, cfg, keys, reg, custom), decls, cfg, custom)

\* model_map.values().cloned().collect(), in one iteration order.
Values(model_map, order) == [i \in DOMAIN order |-> model_map[order[i]]]

\* compute_available_models_internal: the lists the call can return, over
\* the iteration orders of the two hash maps.
ComputeAvailableModelsInternal(cfg, keys, reg, custom) ==
  UNION {{SortBy(Values(model_map, o)) : o \in Orders(DOMAIN model_map)} :
           model_map \in {ModelMap(cfg, keys, reg, custom, order) :
                            order \in Orders(DOMAIN cfg)}}

\* ------------------------------------------------ model registry inputs

OpenAi == <<"openai">>
Ollama == <<"ollama">>
Free == <<"free">>
XOllama == <<"x", "-", "ollama">>

\* ProviderConfig of a built-in provider (name: id.to_string()).
ProviderConfig(id) ==
  [ name |-> id,
    auth_type |-> IF id = OpenAi THEN "Bearer" ELSE "None",
    supports_oauth |-> id = OpenAi ]

\* CustomProviderConfig
CustomProviderConfig(enabled) == [name |-> <<"Custom">>, enabled |-> enabled]

\* ProviderRegistry::new over a list of built-in providers.
Registries(ids) == {[p \in S |-> ProviderConfig(p)] : S \in SUBSET ids}

\* Credential maps: for the bearer provider a key that may be empty, for the
\* local runtime the enable flag or some other value.
Credentials ==
  {k \in UNION {[S -> {<< >>, <<"k">>, Enabled}] : S \in SUBSET {OpenAi, Ollama}} :
     /\ OpenAi \in DOMAIN k => k[OpenAi] # Enabled
     /\ Ollama \in DOMAIN k => k[Ollama] # << >>}

\* Custom provider maps: none, one enabled or disabled, one with the id of a
\* built-in provider, and two enabled.
CustomConfigs ==
  { << >>,
    [p \in {XOllama} |-> CustomProviderConfig(TRUE)],
    [p \in {XOllama} |-> CustomProviderConfig(FALSE)],
    [p \in {Ollama} |-> CustomProviderConfig(TRUE)],
    [p \in {OpenAi} |-> CustomProviderConfig(TRUE)],
    [p \in {XOllama, Ollama} |-> CustomProviderConfig(TRUE)] }

\* The number of provider declarations of a catalogue.
RECURSIVE TotalDeclared(_, _)
TotalDeclared(cfg, model_keys) ==
  IF model_keys = {} THEN 0
  ELSE LET k == CHOOSE x \in model_keys : TRUE
       IN Len(cfg[k].providers) + TotalDeclared(cfg, model_keys \ {k})

\* ModelConfig
ModelConfig(name, providers) == [name |-> name, providers |-> providers]

\* Catalogues over the given model keys, declared provider ids and names.
Catalogues(model_keys, ids, names) ==
  LET lists == UNION {[1 .. n -> ids] : n \in 0 .. MaxDeclared}
      configs == {ModelConfig(nm, l) : nm \in names, l \in lists}
  IN {cfg \in UNION {[S -> configs] : S \in SUBSET model_keys} :
        TotalDeclared(cfg, DOMAIN cfg) <= MaxDeclared}

M == <<"m">>
MX == <<"m", "-", "x">>

\* Identifiers: a catalogue key, an unknown key, explicit forms with one "@",
\* and an identifier with two.
Identifiers ==
  { M, <<"u">>, <<"m", "@", "openai">>, <<"u", "@", "nowhere">>, <<"@">>,
    <<"m", "@", "openai", "@", "x">> }

\* ----------------------------------------------- model registry actions

\* get_model_provider is called.
CallGetModelProvider(model_identifier) ==
  /\ call = NoCall
  /\ call' \in {[ op |-> "get_model_provider",
                  model_identifier |-> model_identifier,
                  result |-> r ] :
                  r \in GetModelProvider(model_identifier, api_keys, registry,
                                         custom_providers, config)}
  /\ UNCHANGED << stateVars, uuids, ret, failed, delivered, produced, last_chunk,
                  last_finish, expected, wellformed, nchunks, config, api_keys,
                  registry, custom_providers, protocols, streams >>

\* compute_available_models is called (on the merged credential map).
CallComputeAvailableModels ==
  /\ call = NoCall
  /\ call' \in {[ op |-> "compute_available_models",
                  model_identifier |-> << >>,
                  result |-> r ] :
                  r \in ComputeAvailableModelsInternal(config, api_keys, registry,
                                                       custom_providers)}
  /\ UNCHANGED << stateVars, uuids, ret, failed, delivered, produced, last_chunk,
                  last_finish, expected, wellformed, nchunks, config, api_keys,
                  registry, custom_providers, protocols, streams >>

\* Provider resolution over every catalogue of one model, registry,
\* credential map and custom-provider map of the input sets.
InitResolve ==
  /\ InitStream
  /\ config \in Catalogues({M}, {OpenAi, Ollama, Free, XOllama}, {<<"A">>})
  /\ api_keys \in Credentials
  /\ registry \in Registries({OpenAi, Ollama, Free})
  /\ custom_providers \in CustomConfigs
  /\ call = NoCall
  /\ NoStreams

NextResolve == \E model_identifier \in Identifiers : CallGetModelProvider(model_identifier)

SpecResolve == InitResolve /\ [][NextResolve]_vars

\* The available-model list over every catalogue of two models.
InitAvailable ==
  /\ InitStream
  /\ config \in Catalogues({M, MX}, {OpenAi, Ollama, XOllama}, {<<"A">>, <<"A", "B">>, <<"a">>})
  /\ api_keys \in Credentials
  /\ registry \in Registries({OpenAi, Ollama})
  /\ custom_providers \in CustomConfigs
  /\ call = NoCall
  /\ NoStreams

NextAvailable == CallComputeAvailableModels

SpecAvailable == InitAvailable /\ [][NextAvailable]_vars

\* Both calls over catalogues that declare the local runtime and a provider
\* with a hyphenated id (built-in, custom or both), with and without the
\* enable flag.
InitLocal ==
  /\ InitStream
  /\ config \in Catalogues({M, MX}, {Ollama, XOllama}, {<<"A">>})
  /\ api_keys \in Credentials
  /\ registry \in Registries({Ollama, Free, XOllama})
  /\ custom_providers \in CustomConfigs
  /\ call = NoCall
  /\ NoStreams

NextLocal ==
  \/ \E model_identifier \in Identifiers : CallGetModelProvider(model_identifier)
  \/ CallComputeAvailableModels

SpecLocal == InitLocal /\ [][NextLocal]_vars

\* ------------------------------------------ resolve_provider_model_name

\* ModelConfig with its provider_mappings: Option<HashMap<String, String>>.
MappedModelConfig(provider_mappings) ==
  [name |-> <<"A">>, providers |-> << >>, provider_mappings |-> provider_mappings]

\* Mutant of ResolveProviderModelName: the mapping of any provider is taken.
ResolveProviderModelNameAnyProvider(model_key, provider_id, cfg) ==
  IF model_key \in DOMAIN cfg /\ IsSome(cfg[model_key].provider_mappings)
       /\ DOMAIN Get(cfg[model_key].provider_mappings) # {}
  THEN LET mapping == Get(cfg[model_key].provider_mappings)
       IN mapping[CHOOSE p \in DOMAIN mapping : TRUE]
  ELSE model_key

\* resolve_provider_model_name
ResolveProviderModelName(model_key, provider_id, cfg) ==
  IF model_key \in DOMAIN cfg
  THEN LET model_cfg == cfg[model_key] IN
    IF IsSome(model_cfg.provider_mappings)
    THEN LET mapping == Get(model_cfg.provider_mappings) IN
      IF provider_id \in DOMAIN mapping THEN mapping[provider_id] ELSE model_key
    ELSE model_key
  ELSE model_key

\* Mapping tables: none, empty, one provider, two providers.
Mappings ==
  { None, Some(<< >>),
    Some([p \in {Ollama} |-> <<"llama3">>]),
    Some([p \in {Ollama, OpenAi} |-> IF p = Ollama THEN <<"llama3">> ELSE <<"gpt">>]) }

MappedCatalogues ==
  UNION {[S -> {MappedModelConfig(mp) : mp \in Mappings}] : S \in SUBSET {M, MX}}

\* resolve_provider_model_name is called.
CallResolveProviderModelName(model_key, provider_id) ==
  /\ call = NoCall
  /\ call' = [ op |-> "resolve_provider_model_name",
               model_key |-> model_key,
               provider_id |-> provider_id,
               result |-> ResolveProviderModelName(model_key, provider_id, config) ]
  /\ UNCHANGED << stateVars, uuids, ret, failed, delivered, produced, last_chunk,
                  last_finish, expected, wellformed, nchunks, config, api_keys,
                  registry, custom_providers, protocols, streams >>

InitMapping ==
  /\ InitStream
  /\ config \in MappedCatalogues
  /\ api_keys = << >>
  /\ registry = << >>
  /\ custom_providers = << >>
  /\ call = NoCall
  /\ NoStreams

NextMapping ==
  \E model_key \in {M, MX, <<"u">>}, provider_id \in {OpenAi, Ollama, Free} :
    CallResolveProviderModelName(model_key, provider_id)

SpecMapping == InitMapping /\ [][NextMapping]_vars

\* ---------------------------------------------------- provider registry
\* src-tauri/src/llm/providers/provider_registry.rs

\* Mutant of RegisterProvider: an id already registered keeps its
\* configuration (entry().or_insert).
RegisterProviderKeepFirst(providers, id, provider_config) ==
  IF id \in DOMAIN providers THEN providers ELSE Insert(providers, id, provider_config)

\* register_provider: self.providers.insert(config.id.clone(), config)
RegisterProvider(providers, id, provider_config) == Insert(providers, id, provider_config)

\* provider: self.providers.get(id)
Provider(providers, id) == IF id \in DOMAIN providers THEN Some(providers[id]) ELSE None

\* The provider ids of the registration calls, and for each id two
\* configurations that differ in their name.
RegisteredIds == {OpenAi, Ollama, Free, XOllama}
ProviderConfigs(id) ==
  {ProviderConfig(id), [ProviderConfig(id) EXCEPT !.name = <<"renamed">>]}

\* register_provider is called.
CallRegisterProvider(id, provider_config) ==
  /\ registry' = RegisterProvider(registry, id, provider_config)
  /\ call' = [op |-> "register_provider", id |-> id, config |-> provider_config]
  /\ UNCHANGED << stateVars, uuids, ret, failed, delivered, produced, last_chunk,
                  last_finish, expected, wellformed, nchunks, config, api_keys,
                  custom_providers, protocols, streams >>

NextRegister ==
  \E id \in RegisteredIds : \E provider_config \in ProviderConfigs(id) :
    CallRegisterProvider(id, provider_config)

\* From ProviderRegistry::new(Vec::new()).
SpecRegister == Init /\ [][NextRegister]_vars

\* Streams whose tool-call deltas carry, at any index, no id or any of the
\* ids: a later delta may bring another id for an index that has one.
RefreshChunks ==
  {DoneChunk}
    \cup {ToolChunk(None, Entry(Some(i), id, "f", StrArg(<<"{">>))) :
            i \in Indices, id \in {""} \cup {IdOf(j) : j \in Indices}}

NextRefresh ==
  \/ \E chunk \in RefreshChunks : Parse(chunk)
  \/ Drain

SpecRefresh == Init /\ [][NextRefresh]_vars

\* ------------------------------------------------------- build_messages
\* Text is a sequence of one-character strings.  A content part, an outbound
\* content item and an outbound message are records with the same fields for
\* every variant, the fields a variant does not have left empty.

\* serde_json::Value::to_string of the values the model uses: the empty
\* object, and a JSON string (quoted).
ValueToString(v) ==
  IF v.kind = "object" THEN ObjectToString ELSE <<"\"">> \o v.text \o <<"\"">>

\* ContentPart
Part(type, text, tool_call_id, tool_name, value) ==
  [type |-> type, text |-> text, tool_call_id |-> tool_call_id,
   tool_name |-> tool_name, value |-> value]
TextPart(text) == Part("text", text, "", << >>, JsonEmptyObject)
ImagePart(image) == Part("image", image, "", << >>, JsonEmptyObject)
ToolCallPart(tool_call_id, tool_name, input) ==
  Part("tool-call", << >>, tool_call_id, tool_name, input)
ToolResultPart(tool_call_id, tool_name, output) ==
  Part("tool-result", << >>, tool_call_id, tool_name, output)
ReasoningPart(text) == Part("reasoning", text, "", << >>, JsonEmptyObject)

\* MessageContent
TextContent(text) == [kind |-> "Text", text |-> text, parts |-> << >>]
PartsContent(parts) == [kind |-> "Parts", text |-> << >>, parts |-> parts]

\* Message; provider_options is reduced to the reasoning_content it carries
\* under "openaiCompatible", if any.
Message(role, content, provider_options) ==
  [role |-> role, content |-> content, provider_options |-> provider_options]
SystemMessage(text) == Message("system", TextContent(text), None)
UserMessage(content) == Message("user", content, None)
AssistantMessage(content, provider_options) == Message("assistant", content, provider_options)
ToolMessage(parts) == Message("tool", PartsContent(parts), None)

\* An item of an outbound content array, or a tool-call descriptor.
Item(type, text, id, name, arguments) ==
  [type |-> type, text |-> text, id |-> id, name |-> name, arguments |-> arguments]
TextItem(text) == Item("text", text, "", << >>, << >>)
ImageItem(image) ==
  Item("image_url", <<"data:image/png;base64,">> \o image, "", << >>, << >>)

\* The "content" of an outbound message: null, a string or an array.
NullValue == [kind |-> "null", text |-> << >>, items |-> << >>]
StringValue(text) == [kind |-> "string", text |-> text, items |-> << >>]
ArrayValue(items) == [kind |-> "array", text |-> << >>, items |-> items]

\* An outbound message.
Outbound(role, content, tool_call_id, calls, reasoning_content) ==
  [role |-> role, content |-> content, tool_call_id |-> tool_call_id,
   tool_calls |-> calls, reasoning_content |-> reasoning_content]

\* text.trim().is_empty()
IsBlank(text) == Trim(text) = << >>

\* convert_content: the items one part contributes.
ConvertPart(part) ==
  CASE part.type = "text" -> << TextItem(part.text) >>
    [] part.type = "image" -> << ImageItem(part.text) >>
    [] part.type = "tool-call" ->
         << Item("tool_call", << >>, part.tool_call_id, part.tool_name,
                 ValueToString(part.value)) >>
    [] part.type = "tool-result" -> << >>
    [] OTHER -> IF ~IsBlank(part.text) THEN << TextItem(part.text) >> ELSE << >>

RECURSIVE ConvertParts(_)
ConvertParts(parts) ==
  IF parts = << >> THEN << >>
  ELSE ConvertPart(Head(parts)) \o ConvertParts(Tail(parts))

\* convert_content
ConvertContent(content) ==
  IF content.kind = "Text" THEN StringValue(content.text)
  ELSE ArrayValue(ConvertParts(content.parts))

\* build_assistant_message: what one part adds to rich_parts.
RichPart(part) ==
  CASE part.type \in {"text", "reasoning"} ->
         IF ~IsBlank(part.text) THEN << TextItem(part.text) >> ELSE << >>
    [] part.type = "image" -> << ImageItem(part.text) >>
    [] OTHER -> << >>

RECURSIVE RichParts(_)
RichParts(parts) ==
  IF parts = << >> THEN << >>
  ELSE RichPart(Head(parts)) \o RichParts(Tail(parts))

\* text_chunks.join(""): the non-blank text and reasoning parts, concatenated.
RECURSIVE JoinTextChunks(_)
JoinTextChunks(parts) ==
  IF parts = << >> THEN << >>
  ELSE (IF Head(parts).type \in {"text", "reasoning"} /\ ~IsBlank(Head(parts).text)
        THEN Head(parts).text ELSE << >>) \o JoinTextChunks(Tail(parts))

\* build_assistant_message: content_value.
AssistantContent(content) ==
  IF content.kind = "Text"
  THEN IF ~IsBlank(content.text) THEN StringValue(content.text) ELSE NullValue
  ELSE LET parts == content.parts
           has_image == \E i \in DOMAIN parts : parts[i].type = "image"
           has_text == \E i \in DOMAIN parts :
                         parts[i].type \in {"text", "reasoning"} /\ ~IsBlank(parts[i].text)
       IN IF has_image THEN ArrayValue(RichParts(parts))
          ELSE IF has_text THEN StringValue(JoinTextChunks(parts))
          ELSE NullValue

\* Mutant of ToolCallDescriptor: a call without a name is kept.
ToolCallDescriptorUnnamedToo(part) ==
  IF part.type = "tool-call"
  THEN << Item("function", << >>, part.tool_call_id, part.tool_name,
               ValueToString(part.value)) >>
  ELSE << >>

\* build_assistant_message: the descriptor one part adds to tool_calls.
ToolCallDescriptor(part) ==
  IF part.type = "tool-call" /\ ~IsBlank(part.tool_name)
  THEN << Item("function", << >>, part.tool_call_id, part.tool_name,
               ValueToString(part.value)) >>
  ELSE << >>

RECURSIVE ToolCallDescriptors(_)
ToolCallDescriptors(parts) ==
  IF parts = << >> THEN << >>
  ELSE ToolCallDescriptor(Head(parts)) \o ToolCallDescriptors(Tail(parts))

\* build_assistant_message
BuildAssistantMessage(content, provider_options) ==
  LET calls == IF content.kind = "Parts"
               THEN ToolCallDescriptors(content.parts) ELSE << >>
  IN Outbound("assistant", AssistantContent(content), "",
              IF calls # << >> THEN Some(calls) ELSE None,
              provider_options)

\* tool_output_to_string: the "value" string of the output, else its JSON.
ToolOutputToString(output) ==
  IF output.kind = "value" THEN output.text ELSE ValueToString(output)

\* Mutant of ToolResults: one entry for the whole turn, under the id of
\* its first part.
ToolResultsFirstOnly(parts) ==
  IF parts = << >> THEN << >>
  ELSE << Outbound("tool", StringValue(ToolOutputToString(Head(parts).value)),
                   Head(parts).tool_call_id, None, None) >>

\* build_messages: the entries of one Tool turn.
RECURSIVE ToolResults(_)
ToolResults(parts) ==
  IF parts = << >> THEN << >>
  ELSE (IF Head(parts).type = "tool-result"
        THEN << Outbound("tool", StringValue(ToolOutputToString(Head(parts).value)),
                         Head(parts).tool_call_id, None, None) >>
        ELSE << >>) \o ToolResults(Tail(parts))

\* build_messages: the entries of one message.
BuildMessage(msg) ==
  CASE msg.role = "system" ->
         << Outbound("system", StringValue(msg.content.text), "", None, None) >>
    [] msg.role = "user" ->
         << Outbound("user", ConvertContent(msg.content), "", None, None) >>
    [] msg.role = "assistant" ->
         << BuildAssistantMessage(msg.content, msg.provider_options) >>
    [] OTHER -> ToolResults(msg.content.parts)

\* build_messages
RECURSIVE BuildMessages(_)
BuildMessages(messages) ==
  IF messages = << >> THEN << >>
  ELSE BuildMessage(Head(messages)) \o BuildMessages(Tail(messages))

\* -------------------------------------------- build_request, build_headers
\* A JSON value of the request body is a record [kind, text]; an object's
\* text is its keys and values flattened.
JsonNumber(text) == [kind |-> "number", text |-> text]
JsonTrue == [kind |-> "bool", text |-> <<"true">>]
JsonObject(key, v) == [kind |-> "object", text |-> <<key>> \o v.text]

\* for (k, v) in extra { map.insert(k, v) }
InsertAll(m, extra) ==
  [k \in (DOMAIN m) \cup (DOMAIN extra) |-> IF k \in DOMAIN extra THEN extra[k] ELSE m[k]]

\* build_tools
BuildTools(tools) ==
  IF IsSome(tools)
  THEN Some([i \in DOMAIN Get(tools) |->
              [type |-> "function", name |-> Get(tools)[i].name,
               description |-> Get(tools)[i].description,
               parameters |-> Get(tools)[i].parameters]])
  ELSE None

\* body[key] = value when the option holds one.
InsertSome(body, key, o) == IF IsSome(o) THEN Insert(body, key, Get(o)) ELSE body

\* build_request: options.get("openai").get("reasoningEffort")
ReasoningEffort(provider_options) ==
  IF IsSome(provider_options) /\ IsSome(Get(provider_options).openai)
  THEN Get(Get(provider_options).openai).reasoningEffort
  ELSE None

\* build_request: options.get("openrouter").get("effort"), wrapped as
\* {"effort": effort}
Reasoning(provider_options) ==
  IF IsSome(provider_options) /\ IsSome(Get(provider_options).openrouter)
     /\ IsSome(Get(Get(provider_options).openrouter).effort)
  THEN Some(JsonObject("effort", Get(Get(Get(provider_options).openrouter).effort)))
  ELSE None

\* Mutant of MergeExtra: an extra key does not replace a key the body has.
MergeExtraKeepComputed(body, extra_body) ==
  IF IsSome(extra_body) /\ Get(extra_body).kind = "object"
  THEN InsertAll(Get(extra_body).fields, body)
  ELSE body

\* build_request: the extra body, when it is an object, inserted key by key.
MergeExtra(body, extra_body) ==
  IF IsSome(extra_body) /\ Get(extra_body).kind = "object"
  THEN InsertAll(body, Get(extra_body).fields)
  ELSE body

\* build_request; it has no failing path, the result is the body.
BuildRequest(model, messages, tools, temperature, max_tokens, top_p, top_k, provider_options, extra_body) ==
  LET b0 == [model |-> JsonString(model), messages |-> BuildMessages(messages),
             stream |-> JsonTrue,
             stream_options |-> JsonObject("include_usage", JsonTrue)]
      b1 == InsertSome(b0, "tools", BuildTools(tools))
      b2 == InsertSome(b1, "temperature", temperature)
      b3 == InsertSome(b2, "max_tokens", max_tokens)
      b4 == InsertSome(b3, "top_p", top_p)
      b5 == InsertSome(b4, "top_k", top_k)
      b6 == InsertSome(b5, "reasoning_effort", ReasoningEffort(provider_options))
      b7 == InsertSome(b6, "reasoning", Reasoning(provider_options))
  IN MergeExtra(b7, extra_body)

\* format!("Bearer {}", token)
Bearer(token) == <<"Bearer ">> \o token

\* Mutant of AuthToken: the API key is preferred to the OAuth token.
AuthTokenApiKeyFirst(api_key, oauth_token) ==
  IF IsSome(api_key) THEN api_key ELSE oauth_token

\* build_headers: oauth_token.or(api_key)
AuthToken(api_key, oauth_token) ==
  IF IsSome(oauth_token) THEN oauth_token ELSE api_key

\* build_headers
BuildHeaders(api_key, oauth_token, extra_headers) ==
  LET h0 == [k \in {"Content-Type"} |-> <<"application/json">>]
      token == AuthToken(api_key, oauth_token)
      h1 == IF IsSome(token)
            THEN Insert(h0, "Authorization", Bearer(Get(token))) ELSE h0
  IN IF IsSome(extra_headers) THEN InsertAll(h1, Get(extra_headers)) ELSE h1

\* ---------------------------------------------------------- request inputs
\* A tool output {"value": text}.
ValueOutput(text) == [kind |-> "value", text |-> text]

Parts ==
  { TextPart(<<"h", "i">>), TextPart(<<" ">>), ImagePart(<<"img">>),
    ToolCallPart("a", <<"f">>, JsonEmptyObject),
    ToolCallPart("b", << >>, JsonEmptyObject),
    ToolCallPart("c", <<" ">>, JsonEmptyObject),
    ToolResultPart("a", <<"f">>, ValueOutput(<<"o", "k">>)),
    ToolResultPart("b", <<"f">>, JsonEmptyObject),
    ReasoningPart(<<"r">>) }

\* The sequences over S of at most n elements.
SeqsUpTo(S, n) == UNION { [1..k -> S] : k \in 0..n }

PartLists == SeqsUpTo(Parts, MaxParts)

Contents == { TextContent(<<"h", "i">>), TextContent(<<" ">>) }
              \cup { PartsContent(parts) : parts \in PartLists }

Messages ==
  { SystemMessage(<<"s">>) }
    \cup { UserMessage(content) : content \in Contents }
    \cup { AssistantMessage(content, o) :
             content \in Contents, o \in {None, Some(JsonString(<<"t">>))} }
    \cup { ToolMessage(parts) : parts \in PartLists }

\* The turns the longer conversations are made of.
Turns ==
  { SystemMessage(<<"s">>),
    UserMessage(TextContent(<<"h", "i">>)),
    AssistantMessage(PartsContent(<< ToolCallPart("a", <<"f">>, JsonEmptyObject),
                                     ToolCallPart("b", << >>, JsonEmptyObject) >>), None),
    ToolMessage(<< TextPart(<<"h", "i">>),
                   ToolResultPart("a", <<"f">>, ValueOutput(<<"o", "k">>)) >>),
    ToolMessage(<< ToolResultPart("b", <<"f">>, JsonEmptyObject),
                   ToolResultPart("a", <<"f">>, ValueOutput(<<"o", "k">>)) >>),
    ToolMessage(<< >>) }

Conversations == { << m >> : m \in Messages } \cup SeqsUpTo(Turns, MaxMessages)

Tokens == { None, Some(<< >>), Some(<<"k">>), Some(<<"t">>) }

HeaderNames == { "Authorization", "Content-Type", "X-Title" }

ExtraHeaders ==
  { None } \cup UNION { { Some([k \in K |-> <<"x">>]) } : K \in SUBSET HeaderNames }

ToolDefinitions ==
  { None, Some(<< >>),
    Some(<< [name |-> <<"f">>, description |-> <<"d">>, parameters |-> JsonEmptyObject] >>) }

ProviderOptions ==
  { None }
    \cup { Some([openai |-> a, openrouter |-> b]) :
             a \in { None, Some([reasoningEffort |-> Some(JsonString(<<"high">>))]) },
             b \in { None, Some([effort |-> Some(JsonString(<<"low">>))]) } }

\* The value an extra body gives a key.
ExtraValue(k) ==
  CASE k = "model" -> JsonString(<<"other">>)
    [] k = "stream_options" -> JsonObject("x", JsonNumber(<<"1">>))
    [] k = "temperature" -> JsonNumber(<<"1">>)
    [] k = "reasoning" -> JsonObject("max_tokens", JsonNumber(<<"9">>))
    [] OTHER -> JsonString(<<"p">>)

ExtraKeys == { "model", "stream_options", "temperature", "reasoning", "extra_param" }

\* An extra body: absent, not an object, or an object over some keys.
ExtraBodies ==
  { None, Some([kind |-> "string", fields |-> << >>]) }
    \cup { Some([kind |-> "object", fields |-> [k \in K |-> ExtraValue(k)]]) :
             K \in SUBSET ExtraKeys }

\* --------------------------------------------------------- request actions
requestFrame ==
  << stateVars, uuids, ret, failed, delivered, produced, last_chunk,
     last_finish, expected, wellformed, nchunks, config, api_keys,
     registry, custom_providers, protocols, streams >>

CallBuildMessages(messages) ==
  /\ call = NoCall
  /\ call' = [ op |-> "build_messages", messages |-> messages,
               result |-> BuildMessages(messages) ]
  /\ UNCHANGED requestFrame

CallBuildHeaders(api_key, oauth_token, extra_headers) ==
  /\ call = NoCall
  /\ call' = [ op |-> "build_headers", api_key |-> api_key,
               oauth_token |-> oauth_token, extra_headers |-> extra_headers,
               result |-> BuildHeaders(api_key, oauth_token, extra_headers) ]
  /\ UNCHANGED requestFrame

CallBuildRequest(messages, tools, temperature, max_tokens, top_p, top_k, provider_options, extra_body) ==
  /\ call = NoCall
  /\ call' = [ op |-> "build_request", messages |-> messages, tools |-> tools,
               temperature |-> temperature, max_tokens |-> max_tokens,
               top_p |-> top_p, top_k |-> top_k,
               provider_options |-> provider_options, extra_body |-> extra_body,
               result |-> BuildRequest(<<"m">>, messages, tools, temperature,
                                       max_tokens, top_p, top_k,
                                       provider_options, extra_body) ]
  /\ UNCHANGED requestFrame

NextRequest ==
  \/ \E messages \in Conversations : CallBuildMessages(messages)
  \/ \E api_key \in Tokens, oauth_token \in Tokens, extra_headers \in ExtraHeaders :
       CallBuildHeaders(api_key, oauth_token, extra_headers)
  \/ \E tools \in ToolDefinitions,
        temperature \in { None, Some(JsonNumber(<<"0">>)) },
        max_tokens \in { None, Some(JsonNumber(<<"8">>)) },
        top_p \in { None, Some(JsonNumber(<<"1">>)) },
        top_k \in { None, Some(JsonNumber(<<"4">>)) },
        provider_options \in ProviderOptions,
        extra_body \in ExtraBodies :
       CallBuildRequest(<< UserMessage(TextContent(<<"h", "i">>)) >>, tools,
                        temperature, max_tokens, top_p, top_k,
                        provider_options, extra_body)

SpecRequest == Init /\ [][NextRequest]_vars

\* ------------------------------------------------------ concurrent streams
\* Two streams served by the one protocol object, each with the
\* ProtocolStreamState its caller constructed; the uuid generator is the
\* only thing they share.
StreamIds == {"s1", "s2"}

\* The same chunks parsed and drained with no other stream around: a state of
\* its own from ProtocolStreamState::default(), the events delivered, and a
\* uuid generator nobody else draws from.
NewAlone == [state |-> DefaultState, delivered |-> << >>, uuids |-> 0]

\* parse_stream_event on the stream that is alone.
ParseAlone(a, chunk) ==
  LET r == ParseStreamEvent(a.state, chunk, a.uuids + 1)
  IN [state |-> r.state,
      delivered |-> a.delivered \o r.ret,
      uuids |-> IF r.state.reasoning_id = Some(a.uuids + 1)
                THEN a.uuids + 1 ELSE a.uuids]

\* The drain loop on the stream that is alone.
DrainAlone(a) ==
  [state |-> [a.state EXCEPT !.pending_events = Tail(@)],
   delivered |-> Append(a.delivered, Head(a.state.pending_events)),
   uuids |-> a.uuids]

\* A stream as constructed: its state, the events delivered for it, whether
\* its terminator was submitted, and the same stream run alone.
NewStream ==
  [state |-> DefaultState, delivered |-> << >>, terminated |-> FALSE,
   alone |-> NewAlone]

\* Mutant of StreamState: every caller hands over the state of stream s1.
StreamStateShared(strms, i) == strms["s1"].state

\* The `state: &mut ProtocolStreamState` the caller of stream i hands over.
StreamState(strms, i) == strms[i].state

\* The chunks of the concurrent streams: reasoning, text, a tool call begun
\* with its id, continued without it, finished, and the terminator.
StreamChunks ==
  { JsonChunk(None, Some(Choice(None, Some(Delta(Some("r"), None, None))))),
    JsonChunk(None, Some(Choice(None, Some(Delta(None, Some("t"), None))))),
    ToolChunk(None, Entry(Some(0), IdOf(0), "f", StrArg(<<"{">>))),
    ToolChunk(None, Entry(Some(0), "", "", StrArg(<<"}">>))),
    JsonChunk(None, Some(Choice(Some("tool_calls"), None))),
    DoneChunk }

\* One parse_stream_event call for stream i, its queue drained before.
ParseOn(i, chunk) ==
  /\ nchunks < MaxChunks
  /\ streams[i].state.pending_events = << >>
  /\ ~streams[i].terminated
  /\ \E r \in {ParseStreamEvent(StreamState(streams, i), chunk, uuids + 1)} :
        /\ streams' = [streams EXCEPT ![i] =
                         [state |-> r.state,
                          delivered |-> @.delivered \o r.ret,
                          terminated |-> chunk = DoneChunk,
                          alone |-> ParseAlone(@.alone, chunk)]]
        /\ uuids' = IF r.state.reasoning_id = Some(uuids + 1) THEN uuids + 1 ELSE uuids
  /\ nchunks' = nchunks + 1
  /\ UNCHANGED << stateVars, ret, failed, delivered, produced, last_chunk,
                  last_finish, expected, wellformed, protocols >>
  /\ UNCHANGED registryVars

\* The caller of stream i takes its oldest pending event.
DrainOn(i) ==
  /\ streams[i].state.pending_events # << >>
  /\ streams' = [streams EXCEPT ![i] =
                   [state |-> [@.state EXCEPT !.pending_events = Tail(@)],
                    delivered |-> Append(@.delivered, Head(@.state.pending_events)),
                    terminated |-> @.terminated,
                    alone |-> DrainAlone(@.alone)]]
  /\ UNCHANGED << stateVars, uuids, ret, failed, delivered, produced, last_chunk,
                  last_finish, expected, wellformed, nchunks, protocols >>
  /\ UNCHANGED registryVars

InitStreams ==
  /\ InitStream
  /\ EmptyRegistry
  /\ protocols = Protocols
  /\ streams = [i \in StreamIds |-> NewStream]

NextStreams ==
  \/ \E i \in StreamIds, chunk \in StreamChunks : ParseOn(i, chunk)
  \/ \E i \in StreamIds : DrainOn(i)

SpecStreams == InitStreams /\ [][NextStreams]_vars

\* The whole of a caller that keeps the discipline: chunks are submitted
\* with the queue drained, the terminator comes once, as the last chunk and
\* within the chunks the stream has, and after it the caller closes its
\* event list as collect_events does.
ParseInTime(chunk) ==
  /\ chunk # DoneChunk => nchunks + 1 < MaxChunks
  /\ Parse(chunk)

\* collect_events after its loop: a Done of its own when the recorded finish
\* reason is "tool_calls".
Collect ==
  /\ Terminated
  /\ pending_events = << >>
  /\ call = NoCall
  /\ delivered' = IF finish_reason = Some("tool_calls")
                  THEN Append(delivered, Done(finish_reason)) ELSE delivered
  /\ call' = [op |-> "collect_events"]
  /\ UNCHANGED << stateVars, uuids, ret, failed, produced, last_chunk,
                  last_finish, expected, wellformed, nchunks, config, api_keys,
                  registry, custom_providers >>
  /\ UNCHANGED otherVars

\* The chunks of such a stream: those of the concurrent streams, a plain
\* finish reason, and a whole tool call with its finish reason.
LiveChunks ==
  StreamChunks
    \cup { JsonChunk(None, Some(Choice(Some("stop"), None))),
           ToolChunk(Some("tool_calls"), WholeEntry(0)) }

NextLive ==
  \/ \E chunk \in LiveChunks : ParseInTime(chunk)
  \/ Drain
  \/ Collect

\* The caller does not stop half way: it drains what is pending, submits the
\* terminator, and closes its list.
SpecLive ==
  /\ Init
  /\ [][NextLive]_vars
  /\ WF_vars(Drain)
  /\ WF_vars(ParseInTime(DoneChunk))
  /\ WF_vars(Collect)

\* Streams of usage blocks whose counts reach and pass the range of an i32:
\* 1, 2^31 - 1, 2^31 and 2^32.
MaxI32 == <<0, 0, 32767, 65535>>
Two31 == <<0, 0, 32768, 0>>
Two32 == <<0, 1, 0, 0>>
WideCounts == {One64, MaxI32, Two31, Two32}

WideChunks ==
  {DoneChunk}
    \cup {JsonChunk(Some(UsageBlock(Some(p), Some(One64), None)), None) : p \in WideCounts}
    \cup {JsonChunk(Some(UsageBlock(Some(One64), Some(One64), Some(t))), None) :
            t \in WideCounts}
    \cup {JsonChunk(Some(UsageBlock(Some(Two32), Some(One64), None)),
                     Some(Choice(None, Some(Delta(None, Some("t"), None)))))}

NextWide ==
  \/ \E chunk \in WideChunks : Parse(chunk)
  \/ Drain

SpecWide == Init /\ [][NextWide]_vars

\* ------------------------------------------------------ claim vocabulary

\* The event sequence of the stream so far: what the caller has received,
\* followed by what is still queued for it.
All == delivered \o pending_events

Count(seq, type) == Cardinality({k \in DOMAIN seq : seq[k].type = type})

Drained == pending_events = << >>

\* A step that is one parse_stream_event call, and the events that call
\* added to the stream's event sequence.
IsParseStep == nchunks' = nchunks + 1
NewEvents == SubSeq(delivered' \o pending_events', Len(All) + 1,
                    Len(delivered' \o pending_events'))

\* The ToolCall events of the logical call at index i: under its id, or under
\* the placeholder key when no id was ever sent.
CallEvents(i) ==
  {k \in DOMAIN All : /\ All[k].type = "ToolCall"
                      /\ All[k].tool_call_id \in {IdOf(i), IndexToString(i)}}

\* The index of the logical call a ToolCall event belongs to.
IndexOfEvent(e) ==
  CHOOSE i \in 0 .. 9 : e.tool_call_id \in {IdOf(i), IndexToString(i)}

\* ------------------------------------------------------------- claims

\* C1: once the terminator has been processed, every logical call (deltas at
\* one index, the id sent in any of them or in none) whose name was sent has
\* exactly one ToolCall event, and its input is that of the concatenation of
\* the call's argument fragments in arrival order.
C1_OneToolCallWithAllFragments ==
  (Terminated /\ wellformed) =>
    \A i \in Indices :
      expected[i].named =>
        /\ Cardinality(CallEvents(i)) = 1
        /\ \A k \in CallEvents(i) : All[k].input = InputValue(expected[i].frags)

\* C2: when every tool-call delta carries its index, the ToolCall events of
\* the stream are in strictly increasing index order.
C2_ToolCallsInIndexOrder ==
  wellformed =>
    \A j, k \in DOMAIN All :
      (j < k /\ All[j].type = "ToolCall" /\ All[k].type = "ToolCall") =>
        IndexOfEvent(All[j]) < IndexOfEvent(All[k])

\* TextStart precedes every TextDelta, ToolCall and ReasoningStart.
TextStartFirst ==
  \A k \in DOMAIN All :
    All[k].type \in {"TextDelta", "ToolCall", "ReasoningStart"} =>
      \E j \in 1 .. (k - 1) : All[j].type = "TextStart"

\* The last chunk parsed carried a delta.
LastChunkHasDelta ==
  /\ IsSome(last_chunk)
  /\ Get(last_chunk).kind = "json"
  /\ IsSome(Get(last_chunk).choice)
  /\ IsSome(Get(Get(last_chunk).choice).delta)

\* C3 as stated: in the event sequence of a whole stream, TextStart occurs
\* exactly once, before the first TextDelta, ToolCall and ReasoningStart.
C3_TextStartExactlyOnce ==
  (Terminated /\ Drained) =>
    (Count(delivered, "TextStart") = 1 /\ TextStartFirst)

\* C3 as amended: TextStart occurs at most once in the event sequence of a
\* stream, exactly once from the first chunk that carries a delta on, and
\* before the first TextDelta, ToolCall and ReasoningStart.
C3_TextStartAtMostOnceAndFirst ==
  /\ Count(All, "TextStart") <= 1
  /\ (LastChunkHasDelta => Count(All, "TextStart") = 1)
  /\ TextStartFirst

\* C3 witness: a terminated stream that delivered a TextDelta, a ToolCall and
\* a ReasoningStart.
C3_Witness ==
  /\ Terminated /\ Drained
  /\ Count(delivered, "TextDelta") >= 1
  /\ Count(delivered, "ToolCall") >= 1
  /\ Count(delivered, "ReasoningStart") >= 1

\* C4: what the caller has received followed by the queue is exactly the
\* sequence of events in the order they were produced, and a call returns at
\* most one event, the oldest one not yet delivered.
C4_FifoDelivery ==
  /\ delivered \o pending_events = produced
  /\ Len(ret) <= 1

\* C4 witness: a call produced at least four events, returned one and left
\* the others queued.
C4_Witness ==
  /\ IsSome(ret)
  /\ Len(pending_events) >= 3
  /\ delivered # << >> /\ delivered[Len(delivered)] = Get(ret)

\* C5: over a whole stream, exactly one ReasoningEnd is emitted if a
\* ReasoningStart was emitted, and none otherwise.
C5_OneReasoningEnd ==
  (Terminated /\ Drained) =>
    Count(delivered, "ReasoningEnd") =
      (IF Count(delivered, "ReasoningStart") >= 1 THEN 1 ELSE 0)

\* The reasoning-content fragment of a chunk, if it carries one.
ReasoningOf(chunk) ==
  IF chunk.kind = "json" /\ IsSome(chunk.choice) /\ IsSome(Get(chunk.choice).delta)
  THEN Get(Get(chunk.choice).delta).reasoning_content
  ELSE None

\* C6: a call whose delta has an empty reasoning fragment emits no
\* ReasoningStart and no ReasoningDelta and does not set reasoning_started; a
\* call whose delta has a non-empty fragment emits exactly one ReasoningDelta,
\* carrying the fragment, and when no channel was open that ReasoningDelta
\* comes right after a ReasoningStart with the same id.
C6_ReasoningFragments ==
  [][IsParseStep =>
       LET frag == ReasoningOf(Get(last_chunk'))
           new == NewEvents
           deltas == {k \in DOMAIN new : new[k].type = "ReasoningDelta"}
       IN /\ (frag = Some("")) =>
               /\ Count(new, "ReasoningStart") = 0
               /\ deltas = {}
               /\ (reasoning_started' => reasoning_started)
          /\ (IsSome(frag) /\ Get(frag) # "") =>
               /\ Cardinality(deltas) = 1
               /\ \A k \in deltas : new[k].text = Get(frag)
               /\ ~reasoning_started =>
                    \A k \in deltas :
                      k > 1 /\ new[k - 1] = ReasoningStart(new[k].id)
               /\ reasoning_started => Count(new, "ReasoningStart") = 0
    ]_vars

\* C6 witness: a channel was opened, a later fragment was delivered under it,
\* and the last chunk carried an empty fragment.
C6_Witness ==
  /\ Count(All, "ReasoningStart") = 1
  /\ Count(All, "ReasoningDelta") = 2
  /\ IsSome(last_chunk) /\ ReasoningOf(Get(last_chunk)) = Some("")
  /\ reasoning_started

\* The usage block of a chunk, if it carries one.
UsageOf(chunk) == IF chunk.kind = "json" THEN chunk.usage ELSE None

\* A count that is present and strictly positive; a total that is present and
\* not zero.
Positive(count) == IsSome(count) /\ IsPositive64(Get(count))
NonZero(count) == IsSome(count) /\ Get(count) # Zero64

\* C7: a call emits a Usage event only if the chunk's usage block has a
\* strictly positive prompt or completion count or an explicit non-zero
\* total, and then at most one; a block whose counts are all zero or absent
\* emits none.
C7_UsageOnlyWhenMeaningful ==
  [][IsParseStep =>
       LET usage == UsageOf(Get(last_chunk'))
           n == Count(NewEvents, "Usage")
       IN /\ n <= 1
          /\ n = 1 =>
               /\ IsSome(usage)
               /\ \/ Positive(Get(usage).prompt_tokens)
                  \/ Positive(Get(usage).completion_tokens)
                  \/ NonZero(Get(usage).total_tokens)
    ]_vars

\* C7 witness: a Usage event was delivered for an earlier chunk, and the
\* last chunk carried an all-zero usage block for which nothing was returned.
C7_Witness ==
  /\ Count(delivered, "Usage") = 1
  /\ nchunks >= 2
  /\ IsSome(last_chunk)
  /\ UsageOf(Get(last_chunk)) =
       Some(UsageBlock(Some(Zero64), Some(Zero64), Some(Zero64)))
  /\ ret = None

\* C8: the terminator call returns Done, carrying the finish reason of the
\* last chunk that had one, exactly when it has no other event to deliver;
\* otherwise it returns the oldest of those events and no Done is produced.
C8_DoneWhenNothingPending ==
  [][(IsParseStep /\ last_chunk' = Some(DoneChunk)) =>
       LET new == NewEvents IN
         \/ /\ new = << Done(last_finish) >>
            /\ ret' = Some(Done(last_finish))
            /\ pending_events' = << >>
         \/ /\ new # << >>
            /\ Count(new, "Done") = 0
            /\ ret' = Some(Head(new))
    ]_vars

\* C8 witness: the terminator returned Done with the finish reason of the
\* second chunk, which replaced that of the first.
C8_Witness ==
  /\ Terminated
  /\ ret = Some(Done(Some("tool_calls")))
  /\ nchunks = 3
  /\ Count(delivered, "ToolCall") = 0

\* The ToolCall event of an accumulator.
EventOf(acc) == ToolCall(acc.tool_call_id, acc.tool_name, InputValue(acc.arguments))

\* C9: after the terminator, every accumulator with a non-empty name has
\* been emitted as a ToolCall event (with an empty-object input when its
\* argument text is empty).
C9_TerminatorEmitsEveryNamedCall ==
  (Terminated /\ wellformed) =>
    \A key \in DOMAIN tool_calls :
      tool_calls[key].tool_name # "" =>
        /\ key \in emitted_tool_calls
        /\ \E k \in DOMAIN All : All[k] = EventOf(tool_calls[key])

\* C10: after the call on a chunk with the tool-calls finish reason, the
\* accumulators emitted so far are exactly those with a non-empty name and
\* argument text that is not blank.
C10_FinishFlushEmitsComplete ==
  (wellformed /\ IsSome(last_chunk) /\ FinishOf(Get(last_chunk)) = Some("tool_calls")) =>
    \A key \in DOMAIN tool_calls :
      (tool_calls[key].tool_name # "" /\ Trim(tool_calls[key].arguments) # << >>)
        <=> (key \in emitted_tool_calls
               /\ \E k \in DOMAIN All : All[k] = EventOf(tool_calls[key]))

\* C11: a call on a chunk that is neither the terminator nor valid JSON
\* returns an error and no event and leaves every field of the stream state
\* as it was (so the calls that follow behave as if it had not been made);
\* a call on any other chunk returns no error.
C11_MalformedChunkLeavesState ==
  [][IsParseStep =>
       IF last_chunk' = Some(InvalidChunk)
       THEN /\ failed'
            /\ ret' = None
            /\ UNCHANGED stateVars
            /\ UNCHANGED << uuids, delivered, produced >>
       ELSE ~failed'
    ]_vars

\* C11 witness: the call failed while tool calls were being accumulated,
\* none of them emitted yet, and a reasoning channel was open.
C11_Witness ==
  /\ failed
  /\ last_chunk = Some(InvalidChunk)
  /\ DOMAIN tool_calls # {}
  /\ emitted_tool_calls = {}
  /\ reasoning_started

\* The keys of the ToolCall events of the stream so far.
EmittedIds == {All[k].tool_call_id : k \in {j \in DOMAIN All : All[j].type = "ToolCall"}}

\* C12: no two ToolCall events of a stream carry the same key, the keys
\* emitted are exactly those recorded in emitted_tool_calls, whatever chunks
\* follow (a repeated terminator included); and running the emission routine
\* a second time changes nothing, nor does any run after a forced one.
C12_EmitAtMostOnce ==
  /\ \A j, k \in DOMAIN All :
       (j < k /\ All[j].type = "ToolCall" /\ All[k].type = "ToolCall") =>
         All[j].tool_call_id # All[k].tool_call_id
  /\ EmittedIds = emitted_tool_calls
  /\ \A force \in BOOLEAN :
       LET once == EmitToolCalls(State, force) IN
         /\ EmitToolCalls(once, force) = once
         /\ force => EmitToolCalls(once, FALSE) = once

\* C12 witness: no finish reason was ever received, so the ToolCall came from
\* a terminator's forced flush, and a later terminator returned Done.
C12_Witness ==
  /\ Terminated
  /\ nchunks = 3
  /\ finish_reason = None
  /\ Count(delivered, "ToolCall") = 1
  /\ ret = Some(Done(None))

\* The last call was get_model_provider / compute_available_models.
Resolved == call.op = "get_model_provider"
Listed == call.op = "compute_available_models"

\* provider_available, on the inputs of the state.
Judged(provider_id) ==
  ProviderAvailable(provider_id, api_keys, registry, custom_providers)

\* The positions of "@" in an identifier.
AtSigns(id) == {i \in DOMAIN id : id[i] = "@"}

\* C13: for an identifier with exactly one "@", get_model_provider returns the
\* text before it as the model and the text after it as the provider,
\* whatever the credentials, the registry, the custom providers and the
\* catalogue are.
C13_ExplicitFormVerbatim ==
  (Resolved /\ Cardinality(AtSigns(call.model_identifier)) = 1) =>
    \A i \in AtSigns(call.model_identifier) :
      /\ call.result.ok
      /\ call.result.model = SubSeq(call.model_identifier, 1, i - 1)
      /\ call.result.provider =
           SubSeq(call.model_identifier, i + 1, Len(call.model_identifier))

\* C13 witness: m@openai resolved to (m, openai) although openai has no
\* credential, is not registered and the catalogue is empty.
C13_Witness ==
  /\ Resolved
  /\ call.model_identifier = <<"m", "@", "openai">>
  /\ call.result = Ok(M, OpenAi)
  /\ OpenAi \notin DOMAIN api_keys
  /\ OpenAi \notin DOMAIN registry
  /\ config = << >>

\* C14: for an identifier without "@" that is a key of the catalogue, the
\* result is the earliest declared provider that is judged available (none
\* declared before it is), and an error when no declared provider is.
C14_FirstDeclaredAvailable ==
  (Resolved /\ AtSigns(call.model_identifier) = {}
     /\ call.model_identifier \in DOMAIN config) =>
    LET providers == config[call.model_identifier].providers
        avail == {i \in DOMAIN providers : Judged(providers[i])}
    IN IF avail = {} THEN ~call.result.ok
       ELSE /\ call.result.ok
            /\ call.result.model = call.model_identifier
            /\ \E i \in avail :
                 /\ call.result.provider = providers[i]
                 /\ \A j \in 1 .. (i - 1) : ~Judged(providers[j])

\* C14 witness: the second declared provider was returned, the first not
\* being available, while an available registered provider that the model
\* does not declare exists.
C14_Witness ==
  /\ Resolved
  /\ call.model_identifier = M
  /\ M \in DOMAIN config
  /\ config[M].providers = << Ollama, OpenAi >>
  /\ call.result = Ok(M, OpenAi)
  /\ Free \in DOMAIN registry
  /\ Ollama \in DOMAIN registry

\* C15: for an identifier without "@" that is not a key of the catalogue, the
\* result is a registered provider judged available whenever there is one,
\* an enabled custom provider when there is none, and an error exactly when
\* there is neither.
C15_UnknownModelFallback ==
  (Resolved /\ AtSigns(call.model_identifier) = {}
     /\ call.model_identifier \notin DOMAIN config) =>
    LET builtin == {p \in DOMAIN registry : Judged(p)}
        enabled == {p \in DOMAIN custom_providers : custom_providers[p].enabled}
    IN /\ builtin # {} => (call.result.ok /\ call.result.provider \in builtin)
       /\ (builtin = {} /\ enabled # {}) =>
            (call.result.ok /\ call.result.provider \in enabled)
       /\ ~call.result.ok <=> (builtin = {} /\ enabled = {})
       /\ call.result.ok => call.result.model = call.model_identifier

\* C15 witness: an enabled custom provider was returned while the registry
\* holds providers, none of them available.
C15_Witness ==
  /\ Resolved
  /\ call.model_identifier = <<"u">>
  /\ call.result = Ok(<<"u">>, XOllama)
  /\ {OpenAi, Ollama} \subseteq DOMAIN registry

\* C16: a registered provider whose auth type is not None and that is not an
\* enabled custom provider is judged available exactly when the credential
\* map holds a non-empty credential for it.
C16_AuthNeedsNonEmptyCredential ==
  \A p \in DOMAIN registry :
    (registry[p].auth_type # "None" /\ ~CustomEnabled(p, custom_providers)) =>
      (Judged(p) <=> (p \in DOMAIN api_keys /\ api_keys[p] # << >>))

\* The entries of the list returned by compute_available_models.
Entries == {call.result[i] : i \in DOMAIN call.result}

\* C17: a registered no-authentication provider of the local-runtime set
\* whose credential is not the enable flag (and that is not an enabled custom
\* provider) has no entry in compute_available_models and is not returned by
\* get_model_provider for an identifier without "@"; with the flag set,
\* every catalogue model that declares it has an entry with it; every other
\* registered no-authentication provider is judged available.
C17_LocalRuntimeNeedsEnableFlag ==
  \A p \in DOMAIN registry :
    registry[p].auth_type = "None" =>
      IF IsLocalRuntime(p)
      THEN LET flagged == p \in DOMAIN api_keys /\ api_keys[p] = Enabled IN
        /\ (~flagged /\ ~CustomEnabled(p, custom_providers)) =>
             /\ Listed => \A e \in Entries : e.provider # p
             /\ (Resolved /\ AtSigns(call.model_identifier) = {}) =>
                  ~(call.result.ok /\ call.result.provider = p)
        /\ (flagged /\ Listed) =>
             \A k \in DOMAIN config :
               (\E i \in DOMAIN config[k].providers : config[k].providers[i] = p) =>
                 \E e \in Entries : e.key = k /\ e.provider = p
      ELSE Judged(p)

\* C18: the list returned by compute_available_models has no two entries
\* with the same (model key, provider id) pair.
C18_NoDuplicatePairs ==
  Listed =>
    \A i, j \in DOMAIN call.result :
      (call.result[i].key = call.result[j].key
         /\ call.result[i].provider = call.result[j].provider) => i = j

\* C18 witness: a model declares twice a provider that is registered, judged
\* available and also an enabled custom provider, and has one entry for it.
C18_Witness ==
  /\ Listed
  /\ M \in DOMAIN config
  /\ config[M].providers = << Ollama, Ollama >>
  /\ Ollama \in DOMAIN registry
  /\ Judged(Ollama)
  /\ CustomEnabled(Ollama, custom_providers)
  /\ Len(call.result) = 1

\* The (model key, provider id) pairs the catalogue declares whose provider
\* is registered and judged available, or an enabled custom provider.
AvailablePairs ==
  {pair \in UNION {{<< k, config[k].providers[i] >> : i \in DOMAIN config[k].providers} :
                     k \in DOMAIN config} :
     \/ (pair[2] \in DOMAIN registry /\ Judged(pair[2]))
     \/ CustomEnabled(pair[2], custom_providers)}

\* C19: the pairs of the list returned by compute_available_models are
\* exactly the declared pairs whose provider is registered and judged
\* available or is an enabled custom provider.
C19_ExactlyTheAvailablePairs ==
  Listed => {<< e.key, e.provider >> : e \in Entries} = AvailablePairs

\* C20: in the list returned by compute_available_models, the display name
\* of every entry is less than or equal to that of the entry after it.
C20_SortedByName ==
  Listed =>
    \A i \in 1 .. (Len(call.result) - 1) :
      Cmp(call.result[i].name, call.result[i + 1].name) \in {"Less", "Equal"}

\* C20 witness: two entries with different names, the model with the longer
\* key first.
C20_Witness ==
  /\ Listed
  /\ Len(call.result) = 2
  /\ call.result[1].key = MX
  /\ call.result[2].key = M
  /\ call.result[1].name = <<"A", "B">>
  /\ call.result[2].name = <<"a">>

\* C21: resolve_provider_model_name returns the mapped identifier when the
\* catalogue entry of the model has a mapping for the provider, and the model
\* key itself when the model is unknown, when it has no mapping table, and
\* when the table has no entry for the provider.
C21_MappedNameOrPassthrough ==
  call.op = "resolve_provider_model_name" =>
    LET known == call.model_key \in DOMAIN config
        table == known /\ IsSome(config[call.model_key].provider_mappings)
        entry == table /\ call.provider_id \in
                             DOMAIN Get(config[call.model_key].provider_mappings)
    IN /\ entry =>
            call.result = Get(config[call.model_key].provider_mappings)[call.provider_id]
       /\ ~known => call.result = call.model_key
       /\ (known /\ ~table) => call.result = call.model_key
       /\ (table /\ ~entry) => call.result = call.model_key

\* C21 witness: the key was passed through for a provider without a mapping
\* while the model's table maps another provider.
C21_Witness ==
  /\ call.op = "resolve_provider_model_name"
  /\ call.model_key = M
  /\ call.provider_id = OpenAi
  /\ call.result = M
  /\ M \in DOMAIN config
  /\ config[M].provider_mappings = Some([p \in {Ollama} |-> <<"llama3">>])

\* C22: after register_provider(config), provider(config.id) is config, also
\* when the id was registered before; registering what is registered
\* already changes nothing; the lookup of every other id and the protocol
\* table are as before.
C22_RegisterReplacesById ==
  [][call'.op = "register_provider" =>
       /\ Provider(registry', call'.id) = Some(call'.config)
       /\ Provider(registry, call'.id) = Some(call'.config) => registry' = registry
       /\ \A id \in RegisteredIds \ {call'.id} :
            Provider(registry', id) = Provider(registry, id)
       /\ DOMAIN registry' = DOMAIN registry \cup {call'.id}
       /\ protocols' = protocols
    ]_vars

\* C22 witness: the last registration replaced another configuration of the
\* same id, all four ids being registered.
C22_Witness ==
  /\ call.op = "register_provider"
  /\ call.id = OpenAi
  /\ call.config.name = <<"renamed">>
  /\ DOMAIN registry = RegisteredIds
  /\ registry[OpenAi] = call.config
  /\ registry[Ollama].name = <<"renamed">>


\* The tool-result parts of a turn, in order.
ToolResultParts(parts) == SelectSeq(parts, LAMBDA p : p.type = "tool-result")

\* The number of outbound entries a message stands for.
Contribution(msg) ==
  IF msg.role = "tool" THEN Len(ToolResultParts(msg.content.parts)) ELSE 1

\* The number of outbound entries before those of message i.
RECURSIVE Offset(_, _)
Offset(messages, i) ==
  IF i = 1 THEN 0 ELSE Offset(messages, i - 1) + Contribution(messages[i - 1])

\* The parts of a message content; a Text content has none.
PartsOf(content) == IF content.kind = "Parts" THEN content.parts ELSE << >>

\* The header map names Authorization among the extra headers.
ExtraNamesAuthorization(extra_headers) ==
  IsSome(extra_headers) /\ "Authorization" \in DOMAIN Get(extra_headers)

\* The Authorization header follows the tokens alone.
AuthorizationFromTokens(c) ==
  /\ IsSome(c.oauth_token) =>
       /\ "Authorization" \in DOMAIN c.result
       /\ c.result["Authorization"] = <<"Bearer ">> \o Get(c.oauth_token)
  /\ ~IsSome(c.oauth_token) /\ IsSome(c.api_key) =>
       /\ "Authorization" \in DOMAIN c.result
       /\ c.result["Authorization"] = <<"Bearer ">> \o Get(c.api_key)
  /\ ~IsSome(c.oauth_token) /\ ~IsSome(c.api_key) =>
       "Authorization" \notin DOMAIN c.result

\* Every extra header is in the result with its own value.
ExtraHeadersPresent(c) ==
  IsSome(c.extra_headers) =>
    \A k \in DOMAIN Get(c.extra_headers) :
      k \in DOMAIN c.result /\ c.result[k] = Get(c.extra_headers)[k]

\* C23 as stated: build_headers sets Authorization to the bearer form of the
\* OAuth token whenever one is supplied, to the bearer form of the API key
\* only when no OAuth token is supplied, and sets none when neither is
\* supplied; every extra header is present in the result.
C23_BearerOfOAuthElseApiKey ==
  call.op = "build_headers" =>
    AuthorizationFromTokens(call) /\ ExtraHeadersPresent(call)

\* C23 amended: the same, unless the extra headers name Authorization, whose
\* extra value is then the one the result carries; every extra header is
\* present in the result with its own value.
C23_BearerUnlessExtraNamesIt ==
  call.op = "build_headers" =>
    /\ ~ExtraNamesAuthorization(call.extra_headers) => AuthorizationFromTokens(call)
    /\ ExtraHeadersPresent(call)

C23_Witness ==
  /\ call.op = "build_headers"
  /\ call.oauth_token = Some(<<"t">>)
  /\ call.api_key = Some(<<"k">>)
  /\ IsSome(call.extra_headers)
  /\ DOMAIN Get(call.extra_headers) = {"X-Title"}
  /\ call.result["Authorization"] = <<"Bearer ", "t">>

\* The fields of an extra body; one that is absent or not an object has none.
ExtraFields(extra_body) ==
  IF IsSome(extra_body) /\ Get(extra_body).kind = "object"
  THEN Get(extra_body).fields ELSE << >>

\* C24: in the body build_request returns, every top-level key of the extra
\* body has exactly the extra body's value, whatever the request computed
\* for it, and every other key has the value computed without the extra body.
C24_ExtraBodyOverridesTopLevel ==
  call.op = "build_request" =>
    LET extra == ExtraFields(call.extra_body)
        computed == BuildRequest(<<"m">>, call.messages, call.tools, call.temperature,
                                 call.max_tokens, call.top_p, call.top_k,
                                 call.provider_options, None)
    IN /\ DOMAIN call.result = (DOMAIN computed) \cup (DOMAIN extra)
       /\ \A k \in DOMAIN extra : call.result[k] = extra[k]
       /\ \A k \in (DOMAIN computed) \ (DOMAIN extra) : call.result[k] = computed[k]
       /\ "model" \notin DOMAIN extra => call.result["model"] = JsonString(<<"m">>)
       /\ "stream_options" \notin DOMAIN extra =>
            call.result["stream_options"].text = <<"include_usage", "true">>

C24_Witness ==
  /\ call.op = "build_request"
  /\ DOMAIN ExtraFields(call.extra_body) = {"stream_options", "temperature", "extra_param"}
  /\ IsSome(call.temperature)
  /\ call.result["temperature"] = JsonNumber(<<"1">>)
  /\ call.result["stream_options"].text = <<"x", "1">>
  /\ call.result["model"] = JsonString(<<"m">>)

\* C25: build_messages keeps the order of the conversation: the entries of a
\* message follow those of the messages before it; a System, User or
\* Assistant message gives one entry of its role, and a Tool turn gives one
\* tool entry per ToolResult part, in order, each with that part's
\* tool_call_id, its other parts giving nothing.
C25_OrderAndToolResults ==
  call.op = "build_messages" =>
    LET ms == call.messages
        r == call.result
    IN /\ Len(r) = Offset(ms, Len(ms) + 1)
       /\ \A i \in DOMAIN ms :
            LET o == Offset(ms, i)
                res == ToolResultParts(ms[i].content.parts)
            IN IF ms[i].role = "tool"
               THEN \A j \in DOMAIN res :
                      /\ r[o + j].role = "tool"
                      /\ r[o + j].tool_call_id = res[j].tool_call_id
               ELSE r[o + 1].role = ms[i].role

C25_Witness ==
  /\ call.op = "build_messages"
  /\ Len(call.messages) = 2
  /\ call.messages[1].role = "tool"
  /\ Len(call.messages[1].content.parts) = 2
  /\ call.messages[1].content.parts[1].type = "text"
  /\ call.messages[2].role = "tool"
  /\ Len(call.result) = 3
  /\ << call.result[1].tool_call_id, call.result[2].tool_call_id,
        call.result[3].tool_call_id >> = << "a", "b", "a" >>

\* C26: in the messages build_messages returns, a user turn carries no
\* tool-call item and an assistant turn's content carries nothing but text
\* and image items (no tool result, no tool call).
C26_NoToolCallInUserTurn ==
  call.op = "build_messages" =>
    \A i \in DOMAIN call.result :
      LET e == call.result[i]
      IN /\ e.role = "user" =>
              \A j \in DOMAIN e.content.items : e.content.items[j].type # "tool_call"
         /\ e.role = "assistant" =>
              \A j \in DOMAIN e.content.items :
                e.content.items[j].type \in {"text", "image_url"}

\* The tool-call parts an assistant message must describe, by the test on
\* the name.
NonEmptyNamed(parts) ==
  SelectSeq(parts, LAMBDA p : p.type = "tool-call" /\ p.tool_name # << >>)
NonBlankNamed(parts) ==
  SelectSeq(parts, LAMBDA p : p.type = "tool-call" /\ Trim(p.tool_name) # << >>)

\* The tool_calls field of entry e describes exactly these calls, in order,
\* and is absent when there are none.
Describes(e, calls) ==
  IF calls = << >> THEN e.tool_calls = None
  ELSE /\ IsSome(e.tool_calls)
       /\ Len(Get(e.tool_calls)) = Len(calls)
       /\ \A j \in DOMAIN calls :
            /\ Get(e.tool_calls)[j].id = calls[j].tool_call_id
            /\ Get(e.tool_calls)[j].name = calls[j].tool_name

\* C27 as stated: the tool_calls of an outbound assistant message hold one
\* descriptor per ToolCall part with a non-empty name, in order, and the
\* field is absent when none remains.
C27_DescriptorPerNonEmptyName ==
  call.op = "build_messages" =>
    \A i \in DOMAIN call.messages :
      call.messages[i].role = "assistant" =>
        Describes(call.result[Offset(call.messages, i) + 1],
                  NonEmptyNamed(PartsOf(call.messages[i].content)))

\* C27 amended: one descriptor per ToolCall part whose name is not blank
\* (has a character that is not whitespace), in order; parts with an empty
\* or blank name are dropped; the field is absent when none remains.
C27_DescriptorPerNonBlankName ==
  call.op = "build_messages" =>
    \A i \in DOMAIN call.messages :
      call.messages[i].role = "assistant" =>
        Describes(call.result[Offset(call.messages, i) + 1],
                  NonBlankNamed(PartsOf(call.messages[i].content)))

C27_Witness ==
  /\ call.op = "build_messages"
  /\ Len(call.messages) = 1
  /\ call.messages[1].role = "assistant"
  /\ Len(PartsOf(call.messages[1].content)) = 2
  /\ PartsOf(call.messages[1].content)[1].tool_name = << >>
  /\ PartsOf(call.messages[1].content)[2].tool_name = <<"f">>
  /\ PartsOf(call.messages[1].content)[2].type = "tool-call"
  /\ IsSome(call.result[1].tool_calls)
  /\ Len(Get(call.result[1].tool_calls)) = 1
  /\ Get(call.result[1].tool_calls)[1].id = "a"


ReasoningEvents == {"ReasoningStart", "ReasoningDelta", "ReasoningEnd"}

\* The reasoning ids in a sequence of events and a state.
IdsOf(events, s) ==
  { events[k].id : k \in { n \in DOMAIN events : events[n].type \in ReasoningEvents } }
    \cup { s.pending_events[k].id :
             k \in { n \in DOMAIN s.pending_events :
                       s.pending_events[n].type \in ReasoningEvents } }
    \cup { s.reasoning_id[k] : k \in DOMAIN s.reasoning_id }

\* A reasoning id replaced by its rank among the ids of its stream.
Rank(id, ids) == Cardinality({ j \in ids : j <= id })
RankedEvents(events, ids) ==
  [k \in DOMAIN events |->
     IF events[k].type \in ReasoningEvents
     THEN [events[k] EXCEPT !.id = Rank(@, ids)] ELSE events[k]]

\* The events delivered and the state, the reasoning ids ranked.
Ranked(events, s) ==
  LET ids == IdsOf(events, s)
  IN [delivered |-> RankedEvents(events, ids),
      state |-> [s EXCEPT !.pending_events = RankedEvents(@, ids),
                          !.reasoning_id = [k \in DOMAIN @ |-> Rank(@[k], ids)]]]

C29_LaterIdRefreshesMapping ==
  (IsSome(last_chunk) /\ ~failed) =>
    LET entries == EntriesOf(Get(last_chunk))
    IN \A k \in DOMAIN entries :
         LET e == entries[k]
         IN (/\ IsSome(e.index)
             /\ e.id # ""
             /\ \A n \in (k + 1) .. Len(entries) :
                  ~(entries[n].index = e.index /\ entries[n].id # ""))
            => /\ Get(e.index) \in DOMAIN tool_call_index_map
               /\ tool_call_index_map[Get(e.index)] = e.id

\* The key an id-less delta at index i is to be accumulated under: the id
\* associated with the index, else the key placed at that position of the
\* emission order, else the index's string form.
KeyOfIndex(i) ==
  IF i \in DOMAIN tool_call_index_map THEN tool_call_index_map[i]
  ELSE IF i + 1 <= Len(tool_call_order) /\ tool_call_order[i + 1] # ""
       THEN tool_call_order[i + 1]
       ELSE IndexToString(i)

\* C30: a call whose delta carries an index and no id accumulates it, name
\* and argument text kept, under the id associated with the index, else
\* under the key placed at that position of tool_call_order, else under the
\* index's string form; an empty filler slot at that position is no key.
C30_IndexedDeltaAccumulated ==
  [][(IsParseStep /\ ~failed' /\ Len(EntriesOf(Get(last_chunk'))) = 1) =>
       LET e == EntriesOf(Get(last_chunk'))[1]
       IN (IsSome(e.index) /\ e.id = "") =>
            LET key == KeyOfIndex(Get(e.index))
                before == IF key \in DOMAIN tool_calls
                          THEN tool_calls[key].arguments ELSE << >>
            IN /\ key \in DOMAIN tool_calls'
               /\ e.name # "" => tool_calls'[key].tool_name = e.name
               /\ e.args.kind = "str" =>
                    tool_calls'[key].arguments = before \o e.args.text
    ]_vars

\* C31: every key with an accumulator in tool_calls holds a position of
\* tool_call_order, so that the emission walk reaches it: a delta with
\* another id for an index does not push a committed key out of its slot.
C31_EveryAccumulatorHasAPosition ==
  \A k \in DOMAIN tool_calls :
    \E p \in DOMAIN tool_call_order : tool_call_order[p] = k

\* s is a prefix of t.
IsPrefix(s, t) == Len(s) <= Len(t) /\ SubSeq(t, 1, Len(s)) = s

\* C32: a call whose tool-call delta resolves to key K changes no accumulator
\* but K's and adds none but K's; every accumulator's argument text stays a
\* prefix of what it becomes, and a string fragment is appended to K's text
\* whole, at its end, whether K was emitted or not.  A call without a
\* tool-call delta leaves the accumulators alone.
C32_OnlyTheKeysAccumulatorGrows ==
  [][(IsParseStep /\ ~failed') =>
       LET entries == EntriesOf(Get(last_chunk'))
       IN /\ entries = << >> => tool_calls' = tool_calls
          /\ Len(entries) = 1 =>
               LET e == entries[1]
                   key == ResolveKey(RecordIndex(State, e), e)
                   before == IF key \in DOMAIN tool_calls
                             THEN tool_calls[key].arguments ELSE << >>
               IN /\ \A k \in DOMAIN tool_calls :
                       /\ k \in DOMAIN tool_calls'
                       /\ k # key => tool_calls'[k] = tool_calls[k]
                       /\ IsPrefix(tool_calls[k].arguments, tool_calls'[k].arguments)
                  /\ \A k \in DOMAIN tool_calls' : k \in DOMAIN tool_calls \/ k = key
                  /\ (key # "" /\ e.args.kind = "str") =>
                       tool_calls'[key].arguments = before \o e.args.text
    ]_vars

\* C32 witness: an accumulator that was emitted with the text "{}" has taken
\* a further fragment at its end.
C32_Witness ==
  /\ IsSome(last_chunk)
  /\ Len(EntriesOf(Get(last_chunk))) = 1
  /\ EntriesOf(Get(last_chunk))[1].id = ""
  /\ \E k \in emitted_tool_calls :
       /\ k \in DOMAIN tool_calls
       /\ tool_calls[k].arguments = <<"{", "}", "}">>

\* C33: every ReasoningStart, ReasoningDelta and ReasoningEnd event of a
\* stream carries the same id, also for reasoning fragments that arrive
\* after a finish reason was observed.
C33_OneReasoningId ==
  \A j, k \in DOMAIN All :
    (All[j].type \in ReasoningEvents /\ All[k].type \in ReasoningEvents) =>
      All[j].id = All[k].id

\* The chunk carries a delta.
HasDelta(chunk) ==
  chunk.kind = "json" /\ IsSome(chunk.choice) /\ IsSome(Get(chunk.choice).delta)

\* C34: the call on the first chunk of a stream that carries a delta produces
\* TextStart before every other event of that call, and returns it.
C34_TextStartFirstOfItsChunk ==
  [][(IsParseStep /\ ~failed' /\ HasDelta(Get(last_chunk')) /\ ~text_started) =>
       /\ NewEvents # << >>
       /\ NewEvents[1] = TextStart
       /\ ret' = Some(TextStart)
    ]_vars

\* The text-content string of a chunk, if it carries one.
ContentOf(chunk) ==
  IF HasDelta(chunk) THEN Get(Get(chunk.choice).delta).content ELSE None

\* The call on a chunk produces one TextDelta, with the chunk's text, exactly
\* when the chunk carries a text-content string, and the reasoning events of
\* these types that the call produces come before it.
TextDeltaAfter(types) ==
  (IsParseStep /\ ~failed') =>
    LET new == NewEvents
        text == ContentOf(Get(last_chunk'))
        deltas == {k \in DOMAIN new : new[k].type = "TextDelta"}
    IN /\ Cardinality(deltas) = (IF IsSome(text) THEN 1 ELSE 0)
       /\ \A k \in deltas :
            /\ new[k].text = Get(text)
            /\ \A j \in DOMAIN new : new[j].type \in types => j < k

\* C35 as stated: every delta with a text-content string produces exactly
\* one TextDelta carrying it, appended in arrival order, and the reasoning
\* events of the chunk precede its TextDelta.
C35_TextDeltaAfterReasoningEvents ==
  [][TextDeltaAfter(ReasoningEvents)]_vars

\* C35 amended: the same, the reasoning events that precede the TextDelta
\* being the chunk's ReasoningStart and ReasoningDelta; the ReasoningEnd a
\* finish reason produces comes after the chunk's TextDelta.
C35_TextDeltaAfterReasoningDelta ==
  [][/\ TextDeltaAfter({"ReasoningStart", "ReasoningDelta"})
     /\ (IsParseStep /\ ~failed') =>
          \A j, k \in DOMAIN NewEvents :
            (NewEvents[j].type = "ReasoningEnd" /\ NewEvents[k].type = "TextDelta")
              => k < j
    ]_vars

\* C35 witness: one chunk opened the reasoning channel, carried text and a
\* finish reason: ReasoningDelta, TextDelta, ReasoningEnd in that order.
C35_Witness ==
  /\ IsSome(last_chunk)
  /\ ContentOf(Get(last_chunk)) = Some("t")
  /\ ReasoningOf(Get(last_chunk)) = Some("r")
  /\ \E k \in DOMAIN All :
       /\ k >= 2 /\ k + 1 <= Len(All)
       /\ All[k - 1].type = "ReasoningDelta"
       /\ All[k].type = "TextDelta"
       /\ All[k + 1].type = "ReasoningEnd"

\* C36: a stream whose caller keeps the drain-before-advance discipline and
\* submits the terminator once, as the last chunk, ends with exactly one Done
\* event delivered.
C36_EventuallyOneDone ==
  <>[](Count(delivered, "Done") = 1)


\* C37: every accumulator's tool_call_id is the key under which tool_calls
\* holds it, and no two ToolCall events of a stream carry the same
\* tool_call_id.
C37_AccumulatorIdIsItsKey ==
  /\ \A key \in DOMAIN tool_calls : tool_calls[key].tool_call_id = key
  /\ \A j, k \in DOMAIN All :
       (j # k /\ All[j].type = "ToolCall" /\ All[k].type = "ToolCall") =>
         All[j].tool_call_id # All[k].tool_call_id
  /\ \A k \in DOMAIN All :
       All[k].type = "ToolCall" => All[k].tool_call_id \in DOMAIN tool_calls

\* Two calls were emitted, one of them accumulated under a placeholder key.
C37_Witness ==
  /\ Terminated
  /\ Count(All, "ToolCall") = 2
  /\ IndexToString(0) \in DOMAIN tool_calls
  /\ \E k \in DOMAIN All : All[k].type = "ToolCall" /\ All[k].tool_call_id = IndexToString(0)

\* The reasoning event that opened the channel in force before position k of
\* the events: the last ReasoningStart before k with no ReasoningEnd after it.
OpenBefore(events, k) ==
  { j \in 1 .. k - 1 :
      /\ events[j].type = "ReasoningStart"
      /\ \A m \in j + 1 .. k - 1 :
           events[m].type \notin {"ReasoningStart", "ReasoningEnd"} }

\* C38: the reasoning events are well bracketed: a ReasoningDelta or
\* ReasoningEnd follows a ReasoningStart of its id that is not yet closed, no
\* ReasoningStart comes while a channel is open, and once the terminator is
\* processed no channel is open.
C38_ReasoningWellBracketed ==
  /\ \A k \in DOMAIN All :
       /\ All[k].type \in {"ReasoningDelta", "ReasoningEnd"} =>
            \E j \in OpenBefore(All, k) : All[j].id = All[k].id
       /\ All[k].type = "ReasoningStart" => OpenBefore(All, k) = {}
  /\ reasoning_started <=> OpenBefore(All, Len(All) + 1) # {}
  /\ Terminated => ~reasoning_started

\* The terminator closed a channel that no finish reason had closed.
C38_Witness ==
  /\ Terminated
  /\ last_finish = None
  /\ Count(All, "ReasoningDelta") = 2
  /\ All # << >> /\ All[Len(All)].type \in {"ReasoningEnd", "Done"}
  /\ Count(All, "ReasoningEnd") = 1
  /\ ~reasoning_started

\* C39: a provider that get_model_provider returns for an identifier that is
\* not of the explicit form is one that provider_available accepts on the
\* same credentials, registry and custom providers.
C39_ResolvedProviderIsAvailable ==
  (/\ Resolved
   /\ call.result.ok
   /\ Len(Split(call.model_identifier)) # 2) =>
    ProviderAvailable(call.result.provider, api_keys, registry, custom_providers)


\* An i32 widened to an i64 (sign extension).
Widen(e) ==
  << IF e < 0 THEN 65535 ELSE 0, IF e < 0 THEN 65535 ELSE 0,
     (e \div 65536) % 65536, e % 65536 >>

\* The Usage event carries count v of the vendor as e.
CarriedExactly(v, e) == IsPositive64(v) => (e > 0 /\ Widen(e) = v)

\* C40: the counts of an emitted Usage event are the vendor's counts, for
\* every strictly positive 64-bit count: a positive count is never delivered
\* as zero or as a negative number.
C40_UsageCountsExact ==
  [][(IsParseStep /\ IsSome(UsageOf(Get(last_chunk')))) =>
       LET usage == Get(UsageOf(Get(last_chunk')))
           new == NewEvents
       IN \A k \in DOMAIN new :
            new[k].type = "Usage" =>
              /\ CarriedExactly(UnwrapOr0(usage.prompt_tokens), new[k].input_tokens)
              /\ CarriedExactly(UnwrapOr0(usage.completion_tokens), new[k].output_tokens)
              /\ IsSome(usage.total_tokens) =>
                   /\ IsSome(new[k].total_tokens)
                   /\ CarriedExactly(Get(usage.total_tokens), Get(new[k].total_tokens))]_vars

====
